---- MODULE Spec2Model ----
(***************************************************************************)
(* A model of the event-translator workers.                                *)
(*                                                                         *)
(*  - the TranslationBot session of src/worker/main.py: ingestion buffer   *)
(*    (audio_q), the recognition thread (run_stream), the per-target       *)
(*    translation handlers, the per-language synthesis queues and pumps,  *)
(*    the shutdown sequence of run() and SessionSupervisor.stop;           *)
(*  - the legacy translation path of src/worker_legacy (RoomManager,       *)
(*    ModularTranslationWorker, GoogleTranslateProvider).                  *)
(*                                                                         *)
(* An utterance is identified by its arrival index k; its text in language *)
(* L is the pair <<L, k>>, so a translation differs from the source text   *)
(* unless the target is the source language.                               *)
(***************************************************************************)
EXTENDS Integers, Sequences, FiniteSets, TLC

\* ---------------------------------------------------------------- bounds
\* Largest number of recognition results one session delivers.
MaxResults == 3
\* Largest number of inbound audio frames one session delivers.
MaxFrames == 2
\* Capacity of a synthesis queue (asyncio.Queue(maxsize=64) in the source).
TtsQueueMax == 2
\* Capacity of the ingestion buffer (asyncio.Queue(maxsize=100) in the source).
AudioQMax == 1
\* Number of frames one synthesized segment is cut into.
SegFrames == 2
\* Number of threads of the event loop's default executor, which runs every
\* asyncio.to_thread call (min(32, cpu_count + 4) in the standard library).
PoolSize == 2
\* Largest number of failures (an engine or transport call raising) in one session.
MaxFaults == 1

\* ------------------------------------------------------------- utilities
\* The None items of the queues; queue items are pairs, and no segment or
\* chunk has index 0.
None == <<0, 0>>
\* The linear16 chunk feed_audio makes of the n-th inbound frame.
Chunk(n) == <<n, 0>>
NoText == <<"-", 0>>

Range(s) == {s[i] : i \in 1..Len(s)}

Front(s) == SubSeq(s, 1, Len(s) - 1)

\* dict.fromkeys(list): the first occurrence of every element, in order.
RECURSIVE Dedup(_)
Dedup(s) ==
  IF s = <<>> THEN <<>>
  ELSE LET r == Dedup(Front(s))
           x == s[Len(s)]
       IN IF x \in Range(r) THEN r ELSE Append(r, x)

\* ------------------------------------------------- session configuration
NoMetadata == [sourceLanguage |-> "", outputs |-> <<>>]

\* One entry of the outputs list; an empty voice stands for no voice hint.
OutV(l, c, a, v) == [lang |-> l, captions |-> c, audio |-> a, voice |-> v]

Out(l, c, a) == OutV(l, c, a, "")

\* What a session is started with: the language list handed to the
\* constructor, the metadata stored on the room, and what the environment
\* does: how many inbound frames and recognition results it delivers and
\* whether a stop request for the room arrives.
Scenario(codes, md, f, u, st) ==
  [lang_codes |-> codes, metadata |-> md, frames |-> f, utterances |-> u, stop |-> st]

MetaCaptionsAndAudio ==
  [sourceLanguage |-> "en",
   outputs |-> <<Out("es", TRUE, TRUE), Out("fr", TRUE, FALSE)>>]

MetaAudioOnly ==
  [sourceLanguage |-> "en",
   outputs |-> <<Out("es", FALSE, TRUE), Out("fr", TRUE, FALSE)>>]

\* The sessions explored: no target (ingestion and numbering only), one
\* target, two targets, a repeated target, and the two metadata forms.
SessionInputs ==
  { Scenario(<<"en">>, NoMetadata, MaxFrames, MaxResults, TRUE),
    Scenario(<<"en", "es">>, NoMetadata, 0, MaxResults, FALSE),
    Scenario(<<"en", "es">>, NoMetadata, 1, 1, TRUE),
    Scenario(<<"en", "es", "fr">>, NoMetadata, 0, 1, TRUE),
    Scenario(<<"en", "es", "es">>, NoMetadata, 0, 1, TRUE),
    Scenario(<<"en">>, MetaCaptionsAndAudio, 1, 1, TRUE),
    Scenario(<<"en">>, MetaAudioOnly, 1, 1, TRUE) }

\* TranslationBot.__init__: the first code is the source language, the rest
\* are both caption and audio targets.
InitPrimary(codes) == IF codes # <<>> THEN codes[1] ELSE "en"

InitTargets(codes) == IF Len(codes) > 1 THEN Tail(codes) ELSE <<>>

\* load_room_metadata: the targets derived from the outputs list.
CaptionLangs(outputs) ==
  LET sel == SelectSeq(outputs, LAMBDA o : o.lang # "" /\ o.captions)
  IN [i \in 1..Len(sel) |-> sel[i].lang]

AudioLangs(outputs) ==
  LET sel == SelectSeq(outputs, LAMBDA o : o.lang # "" /\ o.audio)
  IN [i \in 1..Len(sel) |-> sel[i].lang]

MetaPrimary(md, prim) == IF md.sourceLanguage # "" THEN md.sourceLanguage ELSE prim

MetaCaptionTargets(md, prim) ==
  SelectSeq(Dedup(CaptionLangs(md.outputs)), LAMBDA l : l # MetaPrimary(md, prim))

MetaAudioTargets(md, prim) ==
  SelectSeq(Dedup(AudioLangs(md.outputs)), LAMBDA l : l # MetaPrimary(md, prim))

\* The voice hints after the loop over the outputs: every entry that names a
\* language and carries a voice stores it under the language's key.
RECURSIVE MetaVoices(_, _)
MetaVoices(voices, outs) ==
  IF outs = <<>> THEN voices
  ELSE LET o == Head(outs)
       IN MetaVoices(IF o.lang # "" /\ o.voice # "" THEN (o.lang :> o.voice) @@ voices
                     ELSE voices,
                     Tail(outs))

\* The outputs are used only when they yield at least one target.
MetaUsed(md, prim) ==
  /\ md.outputs # <<>>
  /\ \/ MetaCaptionTargets(md, prim) # <<>>
     \/ MetaAudioTargets(md, prim) # <<>>

VARIABLES
  input,                \* the session input (constructor arguments, room metadata)
  primary_lang,         \* TranslationBot.primary_lang
  translation_targets,  \* TranslationBot.translation_targets (a list)
  audio_targets,        \* TranslationBot.audio_targets (a list)
  voice_by_lang,        \* TranslationBot.voice_by_lang: language -> voice name
  streaming_config,     \* language_code of TranslationBot.streaming_config
  is_connected,         \* TranslationBot.is_connected
  roomOpen,             \* the transport connection is open (not yet disconnected)
  runPc,                \* position of TranslationBot.run
  trackIdx,             \* loop index of run: tracks, sentinels, pump awaits
  tts_audio_queues,     \* language -> queue content (only the languages that have one)
  pumpPc,               \* one pump task per entry of audio_targets that has a queue
  track,                \* language -> frames captured on its outbound source
  audio_q,              \* the ingestion buffer
  framesIn,             \* number of frames the transport delivered so far
  feedPc,               \* position of feed_audio
  sttPc,                \* position of the recognition thread (run_stream)
  seq_counter,          \* TranslationBot.seq_counter
  results,              \* [final, seq] of every result run_stream handled, in order
  hpc,                  \* handle_translation_and_tts invocations: <<result, slot>> -> position
  msgs,                 \* messages sent on the data channel
  enq,                  \* language -> segments in the order they were put on its queue
  sentinelPut,          \* languages on whose queue run() has put the sentinel
  sentinelTaken,        \* languages whose sentinel a pump has dequeued
  lateFrames,           \* languages whose track was written after the sentinel was dequeued
  faults,               \* number of engine or transport calls that raised so far
  supPc                 \* SessionSupervisor.stop for this session

\* The state of the legacy worker (worker_legacy): ModularTranslationWorker
\* with its RoomManager, DataPublisher and GoogleTranslateProvider.
VARIABLES
  worker_config,        \* ModularTranslationWorker.worker_config
  workerPc,             \* "setup" (initialize), "running", "stopped" (after cleanup)
  setupIdx,             \* loop index of _setup_audio_tracks
  tts_queues,           \* RoomManager._tts_queues: language -> queue content
  tts_tasks,            \* RoomManager._tts_tasks: language -> position of its task
  audio_source,         \* language -> requests whose frames were published
  transcriptions,       \* is_final of the transcription results received so far
  tpc,                  \* <<transcription k, language>> -> position of _handle_translation
  engine_raised,        \* the handlers whose translation request raised
  published,            \* the messages sent by DataPublisher
  tts_sentinel_taken,   \* languages whose task dequeued None
  tts_late,             \* languages whose source got frames after None was dequeued
  ppc                   \* transcription k -> position of its _publish_transcription task

legacyVars == << worker_config, workerPc, setupIdx, tts_queues, tts_tasks,
                 audio_source, transcriptions, tpc, engine_raised, published,
                 tts_sentinel_taken, tts_late, ppc >>

\* One payload being cut into frames, by _pump or by the legacy
\* AudioConverter.
VARIABLES
  framer,               \* whose framing loop runs: "pump", "converter" or "none"
  pcm,                  \* the payload's samples
  idx,                  \* the loop index (samples consumed so far)
  captured              \* the frames handed to capture_frame, in order

framingVars == << framer, pcm, idx, captured >>

\* One float sample being converted to signed 16-bit.
VARIABLES
  converter,            \* the conversion that runs: "feed_audio",
                        \* "convert_audio_to_linear16", "convert_frame_to_bytes" or "none"
  sample,               \* the float sample, in units of 1 / SampleDen
  linear16              \* the 16-bit result, once converted (a one-element sequence)

codecVars == << converter, sample, linear16 >>

\* SessionSupervisor.start called again for the room of this session.
VARIABLES
  restart               \* "none", or the status start returned: "already_running"
                        \* or "started" (a second TranslationBot was created and runs)

supervisorVars == << restart >>

\* The legacy WorkerManager, which polls for live events and runs one
\* ModularTranslationWorker at a time.
VARIABLES
  attempts,             \* one record per call of _start_processing_event that got
                        \* its room connected: the event, the state of its rtc.Room
                        \* and of its worker, whether on_disconnected is registered
  current_worker,       \* WorkerManager.current_worker: index in attempts, 0 for None
  current_room,         \* WorkerManager.current_room: index in attempts, 0 for None
  processing_event_id,  \* WorkerManager.processing_event_id: 0 for None
  mgrPc,                \* position of the main loop
  mgrEvent,             \* the event _check_for_work is about to start, 0 for none
  stopPc,               \* the calls of _stop_current_worker: 0 is the one awaited by
                        \* the main loop, i the task created by on_disconnected of
                        \* room i; each with its position and the worker and room it
                        \* picked up
  disconnectedEvents    \* rooms whose "disconnected" event is still to be delivered

managerVars == << attempts, current_worker, current_room, processing_event_id,
                  mgrPc, mgrEvent, stopPc, disconnectedEvents >>

\* The legacy AudioProcessor handling one source track, with the
\* GoogleSTTStream it created for it.
VARIABLES
  audio_stream,         \* rtc.AudioStream of the track: "open", "ended" (the track
                        \* ended or was unsubscribed) or "closed" (aclose)
  framesPc,             \* _process_audio_frames: "iterating" or "done"
  resultsPc,            \* _process_stt_results: "next" (calling __anext__),
                        \* "waiting" (on _result_queue) or "done"
  processPc,            \* process_audio_track: "gather" or "done"
  active_streams,       \* the track's entry is in AudioProcessor._active_streams
  stt_closed,           \* GoogleSTTStream._closed
  stream_task,          \* GoogleSTTStream._stream_task: "none", "running", "done"
  stt_audio_queue,      \* number of payloads in GoogleSTTStream._audio_queue
  result_queue,         \* number of results in GoogleSTTStream._result_queue
  pushed,               \* frames the track delivered so far
  recognized            \* final results Google returned so far

processorVars == << audio_stream, framesPc, resultsPc, processPc, active_streams,
                    stt_closed, stream_task, stt_audio_queue, result_queue, pushed,
                    recognized >>

\* What the actions of TranslationBot and of the legacy worker leave alone.
otherVars == << framingVars, codecVars, supervisorVars, managerVars, processorVars >>

vars == << input, primary_lang, translation_targets, audio_targets, voice_by_lang,
           streaming_config, is_connected,
           roomOpen, runPc, trackIdx, tts_audio_queues, pumpPc, track, audio_q,
           framesIn, feedPc, sttPc, seq_counter, results, hpc, msgs, enq,
           sentinelPut, sentinelTaken, lateFrames, faults, supPc, legacyVars,
           otherVars >>

Langs == {"es", "fr"}

\* --------------------------------------------------------------- messages
CaptionMsg(k, fin) ==
  [type |-> "caption", lang |-> primary_lang, seq |-> 0, text |-> <<primary_lang, k>>,
   isFinal |-> fin, status |-> "-", by |-> 0]

OriginalMsg(k, fin, seq) ==
  [type |-> "original-language-text", lang |-> primary_lang, seq |-> seq,
   text |-> <<primary_lang, k>>, isFinal |-> fin, status |-> "-", by |-> 0]

TextMsg(tgt, text, fin, seq, slot) ==
  [type |-> "translation-text", lang |-> tgt, seq |-> seq, text |-> text,
   isFinal |-> fin, status |-> "-", by |-> slot]

AudioMsg(tgt, status, seq, slot) ==
  [type |-> "translation-audio", lang |-> tgt, seq |-> seq, text |-> NoText,
   isFinal |-> TRUE, status |-> status, by |-> slot]

\* publish_data: nothing is sent without a connected room, and a failing send
\* is swallowed.
Publish(sent, new) == IF is_connected /\ roomOpen THEN sent \cup new ELSE sent

\* ----------------------------------------------------------------- queues
HasQueue(l) == l \in DOMAIN tts_audio_queues

\* The keys of tts_audio_queues in insertion order (the order run() walks them).
QueueOrder == SelectSeq(Dedup(audio_targets), LAMBDA l : HasQueue(l))

\* Indexes of audio_targets for which run() starts a pump, in creation order.
RECURSIVE PumpSlots(_)
PumpSlots(n) ==
  IF n = 0 THEN <<>>
  ELSE IF HasQueue(audio_targets[n]) THEN Append(PumpSlots(n - 1), n)
       ELSE PumpSlots(n - 1)

PumpOrder == PumpSlots(Len(audio_targets))

TtsFull(l) == Len(tts_audio_queues[l]) >= TtsQueueMax

AudioQFull == Len(audio_q) >= AudioQMax

\* The frames _pump cuts one segment into.
FramesOf(seg) == [i \in 1..SegFrames |-> <<seg, i>>]

\* The translation engine's answer for utterance k in language tgt.
TranslateText(k, tgt) == <<tgt, k>>

\* asyncio.Queue.get: the pump takes the oldest queued item.
QueueHead(q) == Head(q)

QueueRest(q) == Tail(q)

\* -------------------------------------------------------------------- Init
\* The state after TranslationBot.__init__ for one of the given inputs.
BotInit(inputs) ==
  /\ input \in inputs
  /\ primary_lang = InitPrimary(input.lang_codes)
  /\ translation_targets = InitTargets(input.lang_codes)
  /\ audio_targets = InitTargets(input.lang_codes)
  /\ voice_by_lang = << >>
  /\ streaming_config = primary_lang
  /\ is_connected = FALSE
  /\ roomOpen = FALSE
  /\ runPc = "connecting"
  /\ trackIdx = 1
  /\ tts_audio_queues = <<>>
  /\ pumpPc = <<>>
  /\ track = [l \in Langs |-> <<>>]
  /\ audio_q = <<>>
  /\ framesIn = 0
  /\ feedPc = "none"
  /\ sttPc = "none"
  /\ seq_counter = 0
  /\ results = <<>>
  /\ hpc = <<>>
  /\ msgs = {}
  /\ enq = [l \in Langs |-> <<>>]
  /\ sentinelPut = {}
  /\ sentinelTaken = {}
  /\ lateFrames = {}
  /\ faults = 0
  /\ supPc = "idle"

LegacyConfig(prim, t, a) ==
  [primary_language |-> prim, translation_targets |-> t, audio_targets |-> a]

\* No legacy worker is configured.
LegacyOff == LegacyConfig("en", <<>>, <<>>)

\* No session input: the bot has nothing to do.
NoSession == Scenario(<<"en">>, NoMetadata, 0, 0, FALSE)

\* The state after ModularTranslationWorker.__init__ and the start of
\* initialize for one of the given configurations.
LegacyInit(configs) ==
  /\ worker_config \in configs
  /\ workerPc = "setup"
  /\ setupIdx = 1
  /\ tts_queues = << >>
  /\ tts_tasks = << >>
  /\ audio_source = [l \in Langs |-> <<>>]
  /\ transcriptions = <<>>
  /\ tpc = << >>
  /\ engine_raised = {}
  /\ published = {}
  /\ tts_sentinel_taken = {}
  /\ tts_late = {}
  /\ ppc = << >>

\* A framing loop about to start on one of the given payloads.
FramingInit(framers, payloads) ==
  /\ framer \in framers
  /\ pcm \in payloads
  /\ idx = 0
  /\ captured = <<>>

\* No payload is being framed.
FramingOff == FramingInit({"none"}, {<<>>})

\* A conversion about to run on one of the given samples.
CodecInit(converters, samples) ==
  /\ converter \in converters
  /\ sample \in samples
  /\ linear16 = <<>>

\* No sample is being converted.
CodecOff == CodecInit({"none"}, {0})

\* start was not called again.
SupervisorInit == restart = "none"

\* The state after WorkerManager.__init__.
ManagerInit ==
  /\ attempts = <<>>
  /\ current_worker = 0
  /\ current_room = 0
  /\ processing_event_id = 0
  /\ mgrPc = "sleep"
  /\ mgrEvent = 0
  /\ stopPc = << >>
  /\ disconnectedEvents = {}

\* process_audio_track up to its gather: the streams are created and stored.
ProcessorInit ==
  /\ audio_stream = "open"
  /\ framesPc = "iterating"
  /\ resultsPc = "next"
  /\ processPc = "gather"
  /\ active_streams = TRUE
  /\ stt_closed = FALSE
  /\ stream_task = "none"
  /\ stt_audio_queue = 0
  /\ result_queue = 0
  /\ pushed = 0
  /\ recognized = 0

OthersOff == FramingOff /\ CodecOff /\ SupervisorInit /\ ManagerInit /\ ProcessorInit

Init == BotInit(SessionInputs) /\ LegacyInit({LegacyOff}) /\ OthersOff


cfgVars == << input, primary_lang, translation_targets, audio_targets, voice_by_lang,
             streaming_config >>
ingestVars == << audio_q, framesIn, feedPc >>
dispatchVars == << seq_counter, results, hpc, sentinelPut >>
pumpVars == << pumpPc, track, sentinelTaken, lateFrames >>

\* ----------------------------------------------------------- run: startup
\* connect_to_room succeeds.
Connect ==
  /\ runPc = "connecting"
  /\ is_connected' = TRUE
  /\ roomOpen' = TRUE
  /\ runPc' = "metadata"
  /\ UNCHANGED << cfgVars, trackIdx, tts_audio_queues, pumpVars, ingestVars, sttPc,
                  dispatchVars, msgs, enq, faults, supPc >>
  /\ UNCHANGED << legacyVars, otherVars >>

\* A client cannot be created or the connection fails: "Worker error".
ConnectFail ==
  /\ runPc = "connecting"
  /\ faults < MaxFaults
  /\ faults' = faults + 1
  /\ runPc' = "cleanup"
  /\ UNCHANGED << cfgVars, is_connected, roomOpen, trackIdx, tts_audio_queues,
                  pumpVars, ingestVars, sttPc, dispatchVars, msgs, enq, supPc >>
  /\ UNCHANGED << legacyVars, otherVars >>

LoadRoomMetadata ==
  /\ runPc = "metadata"
  /\ LET md == input.metadata
     IN /\ primary_lang' = MetaPrimary(md, primary_lang)
        /\ IF MetaUsed(md, primary_lang)
           THEN /\ translation_targets' = MetaCaptionTargets(md, primary_lang)
                /\ audio_targets' = MetaAudioTargets(md, primary_lang)
           ELSE UNCHANGED << translation_targets, audio_targets >>
        /\ voice_by_lang' = MetaVoices(voice_by_lang, md.outputs)
  /\ runPc' = IF audio_targets' = <<>> THEN "wait_track" ELSE "tracks"
  /\ trackIdx' = 1
  /\ UNCHANGED << input, streaming_config, is_connected, roomOpen, tts_audio_queues,
                  pumpVars, ingestVars, sttPc, dispatchVars, msgs, enq, faults, supPc >>
  /\ UNCHANGED << legacyVars, otherVars >>

\* A track loop in which a failing publish escapes to run()'s outer handler.
PublishTrackAborts(ok) ==
  /\ runPc = "tracks"
  /\ LET l == audio_targets[trackIdx]
     IN IF ok
        THEN /\ tts_audio_queues' = (l :> <<>>) @@ tts_audio_queues
             /\ track' = [track EXCEPT ![l] = <<>>]
             /\ IF trackIdx < Len(audio_targets)
                THEN trackIdx' = trackIdx + 1 /\ runPc' = "tracks"
                ELSE trackIdx' = 1 /\ runPc' = "wait_track"
             /\ UNCHANGED faults
        ELSE /\ faults < MaxFaults
             /\ faults' = faults + 1
             /\ runPc' = "cleanup"
             /\ UNCHANGED << tts_audio_queues, track, trackIdx >>
  /\ UNCHANGED << cfgVars, is_connected, roomOpen, pumpPc, sentinelTaken, lateFrames,
                  ingestVars, sttPc, dispatchVars, msgs, enq, supPc >>
  /\ UNCHANGED << legacyVars, otherVars >>

\* One iteration of the track loop: the track of audio_targets[trackIdx] is
\* published and its source and queue are stored (replacing earlier ones of
\* the same language), or publishing raises and the language is skipped.
PublishTrack(ok) ==
  /\ runPc = "tracks"
  /\ LET l == audio_targets[trackIdx]
     IN IF ok
        THEN /\ tts_audio_queues' = (l :> <<>>) @@ tts_audio_queues
             /\ track' = [track EXCEPT ![l] = <<>>]
             /\ UNCHANGED faults
        ELSE /\ faults < MaxFaults
             /\ faults' = faults + 1
             /\ UNCHANGED << tts_audio_queues, track >>
  /\ IF trackIdx < Len(audio_targets)
     THEN trackIdx' = trackIdx + 1 /\ runPc' = "tracks"
     ELSE trackIdx' = 1 /\ runPc' = "wait_track"
  /\ UNCHANGED << cfgVars, is_connected, roomOpen, pumpPc, sentinelTaken, lateFrames,
                  ingestVars, sttPc, dispatchVars, msgs, enq, supPc >>
  /\ UNCHANGED << legacyVars, otherVars >>

\* wait_for_audio_track found the speaker's track: the feed task, the
\* recognition task and one pump per audio target with a queue are created.
StartTasks ==
  /\ runPc = "wait_track"
  /\ runPc' = "await_feed"
  /\ feedPc' = "running"
  /\ sttPc' = "streaming"
  /\ pumpPc' = [i \in Range(PumpOrder) |-> "wait"]
  /\ UNCHANGED << cfgVars, is_connected, roomOpen, trackIdx, tts_audio_queues, track,
                  sentinelTaken, lateFrames, audio_q, framesIn, dispatchVars, msgs,
                  enq, faults, supPc >>
  /\ UNCHANGED << legacyVars, otherVars >>

\* wait_for_audio_track timed out: run returns.
NoAudioTrack ==
  /\ runPc = "wait_track"
  /\ runPc' = "cleanup"
  /\ UNCHANGED << cfgVars, is_connected, roomOpen, trackIdx, tts_audio_queues,
                  pumpVars, ingestVars, sttPc, dispatchVars, msgs, enq, faults,
                  supPc >>
  /\ UNCHANGED << legacyVars, otherVars >>

\* -------------------------------------------------------------- ingestion
\* feed_audio: the next inbound frame is converted and put on audio_q; the
\* put suspends the feed task while the queue is full.
FrameArrives ==
  /\ feedPc = "running"
  /\ framesIn < input.frames
  /\ framesIn' = framesIn + 1
  /\ IF AudioQFull
     THEN feedPc' = "blocked" /\ UNCHANGED audio_q
     ELSE audio_q' = Append(audio_q, Chunk(framesIn + 1)) /\ UNCHANGED feedPc
  /\ UNCHANGED << cfgVars, is_connected, roomOpen, runPc, trackIdx, tts_audio_queues,
                  pumpVars, sttPc, dispatchVars, msgs, enq, faults, supPc >>
  /\ UNCHANGED << legacyVars, otherVars >>

\* The suspended put of feed_audio completes once the queue has room.
FeedResume ==
  /\ feedPc = "blocked"
  /\ ~AudioQFull
  /\ audio_q' = Append(audio_q, Chunk(framesIn))
  /\ feedPc' = "running"
  /\ UNCHANGED << cfgVars, is_connected, roomOpen, runPc, trackIdx, tts_audio_queues,
                  pumpVars, framesIn, sttPc, dispatchVars, msgs, enq, faults,
                  supPc >>
  /\ UNCHANGED << legacyVars, otherVars >>

\* The inbound stream ends: feed_audio returns.
StreamEnds ==
  /\ feedPc = "running"
  /\ feedPc' = "done"
  /\ UNCHANGED << cfgVars, is_connected, roomOpen, runPc, trackIdx, tts_audio_queues,
                  pumpVars, audio_q, framesIn, sttPc, dispatchVars, msgs, enq,
                  faults, supPc >>
  /\ UNCHANGED << legacyVars, otherVars >>

\* requests_iter: the recognition thread takes the next chunk; None ends the
\* request stream and with it run_stream.
SttGetChunk ==
  /\ sttPc = "streaming"
  /\ audio_q # <<>>
  /\ audio_q' = Tail(audio_q)
  /\ sttPc' = IF Head(audio_q) = None THEN "done" ELSE "streaming"
  /\ UNCHANGED << cfgVars, is_connected, roomOpen, runPc, trackIdx, tts_audio_queues,
                  pumpVars, framesIn, feedPc, dispatchVars, msgs, enq, faults,
                  supPc >>
  /\ UNCHANGED << legacyVars, otherVars >>

\* streaming_recognize raises: run_stream logs the error and returns.
SttError ==
  /\ sttPc = "streaming"
  /\ faults < MaxFaults
  /\ faults' = faults + 1
  /\ sttPc' = "done"
  /\ UNCHANGED << cfgVars, is_connected, roomOpen, runPc, trackIdx, tts_audio_queues,
                  pumpVars, ingestVars, dispatchVars, msgs, enq, supPc >>
  /\ UNCHANGED << legacyVars, otherVars >>

\* ------------------------------------------------------------- dispatcher
\* A counter that only finalized results advance.
NextSeqFinalOnly(counter, fin) == IF fin THEN counter + 1 ELSE counter

\* The sequence id run_stream gives the result it handles next.
NextSeq(counter, fin) == counter + 1

\* A dispatcher that waits for every handler it has started.
AwaitedAll(k) == {h \in DOMAIN hpc : h[1] <= k}

\* The handlers of the results up to k that run_stream waits for before it
\* takes the next result: the futures run_coroutine_threadsafe returns are
\* dropped, so there are none.
Awaited(k) == {}

\* run_stream handles one recognition result with a non-empty transcript
\* (results without one are skipped and change nothing).
ResultArrives(fin) ==
  /\ sttPc = "streaming"
  /\ Len(results) < input.utterances
  /\ \A h \in Awaited(Len(results)) : hpc[h] = "done"
  /\ LET seq == NextSeq(seq_counter, fin)
         k == Len(results) + 1
     IN /\ seq_counter' = seq
        /\ results' = Append(results, [final |-> fin, seq |-> seq])
        /\ msgs' = Publish(msgs, {CaptionMsg(k, fin), OriginalMsg(k, fin, seq)})
        /\ hpc' = [h \in {<<k, i>> : i \in 1..Len(translation_targets)} |-> "translate"]
                    @@ hpc
  /\ UNCHANGED << cfgVars, is_connected, roomOpen, runPc, trackIdx, tts_audio_queues,
                  pumpVars, ingestVars, sttPc, sentinelPut, enq, faults, supPc >>
  /\ UNCHANGED << legacyVars, otherVars >>

\* ------------------------------------------------ handle_translation_and_tts
HLang(h) == translation_targets[h[2]]
HSeq(h) == results[h[1]].seq
HFinal(h) == results[h[1]].final

\* What the handler sends when translate_text returned.
TranslatedMsgs(h) ==
  {TextMsg(HLang(h), TranslateText(h[1], HLang(h)), HFinal(h), HSeq(h), h[2])}

\* What the handler sends when translate_text raised.
TranslateErrorMsgs(h) == {AudioMsg(HLang(h), "error", HSeq(h), h[2])}

\* The executor threads in use: run_stream holds one while it runs, and so
\* does every _translate and _synthesize call that has started.
ThreadsBusy ==
  (IF sttPc = "streaming" THEN 1 ELSE 0)
    + Cardinality({h \in DOMAIN hpc : hpc[h] \in {"translating", "synthesizing"}})

\* asyncio.to_thread(_translate) or asyncio.to_thread(_synthesize): the call
\* starts when the executor has a free thread and waits in its queue till then.
ThreadStart(h) ==
  /\ hpc[h] \in {"translate", "synth"}
  /\ ThreadsBusy < PoolSize
  /\ hpc' = [hpc EXCEPT ![h] = IF hpc[h] = "translate" THEN "translating"
                                                       ELSE "synthesizing"]
  /\ UNCHANGED << cfgVars, is_connected, roomOpen, runPc, trackIdx, tts_audio_queues,
                  pumpVars, ingestVars, sttPc, seq_counter, results, sentinelPut, msgs,
                  enq, faults, supPc >>
  /\ UNCHANGED << legacyVars, otherVars >>

\* translate_text returns: the translation is published, and a final result
\* of a language with a queue goes on to synthesis.
TranslateOk(h) ==
  /\ hpc[h] = "translating"
  /\ msgs' = Publish(msgs, TranslatedMsgs(h))
  /\ hpc' = [hpc EXCEPT ![h] = IF HFinal(h) /\ HasQueue(HLang(h)) THEN "synth" ELSE "done"]
  /\ UNCHANGED << cfgVars, is_connected, roomOpen, runPc, trackIdx, tts_audio_queues,
                  pumpVars, ingestVars, sttPc, seq_counter, results, sentinelPut, enq, faults,
                  supPc >>
  /\ UNCHANGED << legacyVars, otherVars >>

\* The translation engine raises: the except branch of the handler runs.
TranslateFail(h) ==
  /\ hpc[h] = "translating"
  /\ faults < MaxFaults
  /\ msgs' = Publish(msgs, TranslateErrorMsgs(h))
  /\ hpc' = [hpc EXCEPT ![h] = "translate_error"]
  /\ faults' = faults + 1
  /\ UNCHANGED << cfgVars, is_connected, roomOpen, runPc, trackIdx, tts_audio_queues,
                  pumpVars, ingestVars, sttPc, seq_counter, results, sentinelPut, enq, supPc >>
  /\ UNCHANGED << legacyVars, otherVars >>

\* An "end" message where the "start" message belongs.
EndFirstMsgs(h) == {AudioMsg(HLang(h), "end", HSeq(h), h[2])}

\* What enqueue_tts_audio sends before it puts the segment on the queue.
StartMsgs(h) == {AudioMsg(HLang(h), "start", HSeq(h), h[2])}

\* What enqueue_tts_audio sends after the put.
EndMsgs(h) == {AudioMsg(HLang(h), "end", HSeq(h), h[2])}

\* enqueue_tts_audio: synthesis returned, "start" is published.
SynthOk(h) ==
  /\ hpc[h] = "synthesizing"
  /\ msgs' = Publish(msgs, StartMsgs(h))
  /\ hpc' = [hpc EXCEPT ![h] = "put"]
  /\ UNCHANGED << cfgVars, is_connected, roomOpen, runPc, trackIdx, tts_audio_queues,
                  pumpVars, ingestVars, sttPc, seq_counter, results, sentinelPut, enq, faults,
                  supPc >>
  /\ UNCHANGED << legacyVars, otherVars >>

\* A failure that is reported to nobody.
NoErrorMsgs(h) == {}

\* What the handler sends when enqueue_tts_audio raised.
SynthErrorMsgs(h) == {AudioMsg(HLang(h), "error", HSeq(h), h[2])}

\* The synthesis engine raises: the except branch of the handler runs.
SynthFail(h) ==
  /\ hpc[h] = "synthesizing"
  /\ faults < MaxFaults
  /\ msgs' = Publish(msgs, SynthErrorMsgs(h))
  /\ hpc' = [hpc EXCEPT ![h] = "synth_error"]
  /\ faults' = faults + 1
  /\ UNCHANGED << cfgVars, is_connected, roomOpen, runPc, trackIdx, tts_audio_queues,
                  pumpVars, ingestVars, sttPc, seq_counter, results, sentinelPut, enq, supPc >>
  /\ UNCHANGED << legacyVars, otherVars >>

\* A queue that would hand out the newest item first.
QueueInsertFront(q, item) == <<item>> \o q

\* The queue after enqueue_tts_audio's `await q.put(item)` on a queue that
\* has room.
QueueInsert(q, item) == Append(q, item)

\* The insert and the "end" message that follows it.
PutDone(h) ==
  /\ tts_audio_queues' = [tts_audio_queues EXCEPT ![HLang(h)] = QueueInsert(@, h)]
  /\ enq' = [enq EXCEPT ![HLang(h)] = Append(@, h)]
  /\ msgs' = Publish(msgs, EndMsgs(h))
  /\ hpc' = [hpc EXCEPT ![h] = "done"]

\* `await q.put(audio_bytes)`: asyncio.Queue.put never raises QueueFull; on a
\* full queue it suspends the handler until a slot is free (the except
\* QueueFull branch is never entered).
PutCall(h) ==
  /\ hpc[h] = "put"
  /\ IF TtsFull(HLang(h))
     THEN /\ hpc' = [hpc EXCEPT ![h] = "put_wait"]
          /\ UNCHANGED << tts_audio_queues, enq, msgs >>
     ELSE PutDone(h)
  /\ UNCHANGED << cfgVars, is_connected, roomOpen, runPc, trackIdx, pumpVars,
                  ingestVars, sttPc, seq_counter, results, sentinelPut, faults, supPc >>
  /\ UNCHANGED << legacyVars, otherVars >>

\* A suspended put completes once the queue has room.
PutResume(h) ==
  /\ hpc[h] = "put_wait"
  /\ ~TtsFull(HLang(h))
  /\ PutDone(h)
  /\ UNCHANGED << cfgVars, is_connected, roomOpen, runPc, trackIdx, pumpVars,
                  ingestVars, sttPc, seq_counter, results, sentinelPut, faults, supPc >>
  /\ UNCHANGED << legacyVars, otherVars >>

\* ------------------------------------------------------------------ _pump
PumpReady(p) ==
  /\ p \in DOMAIN pumpPc
  /\ pumpPc[p] = "wait"
  /\ is_connected
  /\ tts_audio_queues[audio_targets[p]] # <<>>

\* The pump dequeues the shutdown sentinel and leaves its loop.
PumpSentinel(p) ==
  /\ PumpReady(p)
  /\ LET l == audio_targets[p]
     IN /\ QueueHead(tts_audio_queues[l]) = None
        /\ tts_audio_queues' = [tts_audio_queues EXCEPT ![l] = QueueRest(@)]
        /\ sentinelTaken' = sentinelTaken \cup {l}
  /\ pumpPc' = [pumpPc EXCEPT ![p] = "done"]
  /\ UNCHANGED << cfgVars, is_connected, roomOpen, runPc, trackIdx, track, lateFrames,
                  ingestVars, sttPc, dispatchVars, msgs, enq, faults, supPc >>
  /\ UNCHANGED << legacyVars, otherVars >>

\* The pump dequeues a segment and captures all its frames; the loop that
\* writes them has no suspension point.
PumpWrite(p) ==
  /\ PumpReady(p)
  /\ LET l == audio_targets[p]
         seg == QueueHead(tts_audio_queues[l])
     IN /\ seg # None
        /\ tts_audio_queues' = [tts_audio_queues EXCEPT ![l] = QueueRest(@)]
        /\ track' = [track EXCEPT ![l] = @ \o FramesOf(seg)]
        /\ lateFrames' = IF l \in sentinelTaken THEN lateFrames \cup {l} ELSE lateFrames
  /\ UNCHANGED << cfgVars, is_connected, roomOpen, runPc, trackIdx, pumpPc,
                  sentinelTaken, ingestVars, sttPc, dispatchVars, msgs, enq,
                  faults, supPc >>
  /\ UNCHANGED << legacyVars, otherVars >>

\* Converting the payload or capturing one of its frames raises after n frames
\* were captured: the exception is caught outside the loop, the pump ends.
PumpCrash(p, n) ==
  /\ PumpReady(p)
  /\ faults < MaxFaults
  /\ LET l == audio_targets[p]
         seg == QueueHead(tts_audio_queues[l])
     IN /\ seg # None
        /\ tts_audio_queues' = [tts_audio_queues EXCEPT ![l] = QueueRest(@)]
        /\ track' = [track EXCEPT ![l] = @ \o SubSeq(FramesOf(seg), 1, n)]
        /\ lateFrames' = IF n > 0 /\ l \in sentinelTaken
                         THEN lateFrames \cup {l} ELSE lateFrames
  /\ pumpPc' = [pumpPc EXCEPT ![p] = "dead"]
  /\ faults' = faults + 1
  /\ UNCHANGED << cfgVars, is_connected, roomOpen, runPc, trackIdx, sentinelTaken,
                  ingestVars, sttPc, dispatchVars, msgs, enq, supPc >>
  /\ UNCHANGED << legacyVars, otherVars >>

\* ---------------------------------------------------------- run: shutdown
\* run() is a single task: between two awaits that suspend it nothing else
\* runs. A put on a queue that has room, and the await of a task that has
\* already finished, do not suspend.

PumpEnded(p) == pumpPc[p] \in {"done", "dead", "cancelled"}

\* The "Stop pumps" loop from its i-th queue on: `await q.put(None)` on each
\* queue of tts_audio_queues until one is full. The queues afterwards and the
\* index of the queue the loop is suspended on (beyond the last: none).
RECURSIVE PutSentinels(_, _)
PutSentinels(qs, i) ==
  IF i > Len(QueueOrder) \/ Len(qs[QueueOrder[i]]) >= TtsQueueMax
  THEN <<qs, i>>
  ELSE PutSentinels([qs EXCEPT ![QueueOrder[i]] = QueueInsert(@, None)], i + 1)

\* `for t in pump_tasks: await t` from its i-th task on: the index of the
\* first pump that has not finished (beyond the last: none).
RECURSIVE FirstRunning(_)
FirstRunning(i) ==
  IF i > Len(PumpOrder) \/ ~PumpEnded(PumpOrder[i]) THEN i ELSE FirstRunning(i + 1)

\* run() goes on from the i-th pump await until it suspends or reaches the
\* outer finally.
AwaitPumpsFrom(i) ==
  LET j == FirstRunning(i)
  IN IF j > Len(PumpOrder)
     THEN runPc' = "cleanup" /\ trackIdx' = 1
     ELSE runPc' = "await_pumps" /\ trackIdx' = j

\* run() goes on from the i-th sentinel put until it suspends or reaches the
\* outer finally.
StopPumpsFrom(i) ==
  LET r == PutSentinels(tts_audio_queues, i)
  IN /\ tts_audio_queues' = r[1]
     /\ sentinelPut' = sentinelPut \cup {QueueOrder[k] : k \in i..(r[2] - 1)}
     /\ IF r[2] > Len(QueueOrder)
        THEN AwaitPumpsFrom(1)
        ELSE runPc' = "sentinels" /\ trackIdx' = r[2]

\* `await feed_task` returns; `await audio_q.put(None)` follows: it suspends
\* when the ingestion buffer is full, else the sentinel is put and run()
\* suspends in `await stt_task`.
RunFeedDone ==
  /\ runPc = "await_feed"
  /\ feedPc = "done"
  /\ IF AudioQFull
     THEN runPc' = "put_none" /\ UNCHANGED audio_q
     ELSE runPc' = "await_stt" /\ audio_q' = Append(audio_q, None)
  /\ UNCHANGED << cfgVars, is_connected, roomOpen, trackIdx, tts_audio_queues,
                  pumpVars, framesIn, feedPc, sttPc, dispatchVars, msgs, enq, faults,
                  supPc >>
  /\ UNCHANGED << legacyVars, otherVars >>

\* The suspended `await audio_q.put(None)` completes once the buffer has room.
RunPutNone ==
  /\ runPc = "put_none"
  /\ ~AudioQFull
  /\ audio_q' = Append(audio_q, None)
  /\ runPc' = "await_stt"
  /\ UNCHANGED << cfgVars, is_connected, roomOpen, trackIdx, tts_audio_queues,
                  pumpVars, framesIn, feedPc, sttPc, dispatchVars, msgs, enq,
                  faults, supPc >>
  /\ UNCHANGED << legacyVars, otherVars >>

\* `await stt_task` returns and the "Stop pumps" loop runs.
RunSttDone ==
  /\ runPc = "await_stt"
  /\ sttPc = "done"
  /\ StopPumpsFrom(1)
  /\ UNCHANGED << cfgVars, is_connected, roomOpen, pumpVars, ingestVars, sttPc,
                  seq_counter, results, hpc, msgs, enq, faults, supPc >>
  /\ UNCHANGED << legacyVars, otherVars >>

\* A suspended `await q.put(None)` completes once its queue has room and the
\* loop goes on.
RunPutSentinel ==
  /\ runPc = "sentinels"
  /\ ~TtsFull(QueueOrder[trackIdx])
  /\ StopPumpsFrom(trackIdx)
  /\ UNCHANGED << cfgVars, is_connected, roomOpen, pumpVars, ingestVars, sttPc,
                  seq_counter, results, hpc, msgs, enq, faults, supPc >>
  /\ UNCHANGED << legacyVars, otherVars >>

\* The pump task run() is suspended on has finished: `await t` returns and
\* the loop goes on.
RunAwaitPump ==
  /\ runPc = "await_pumps"
  /\ PumpEnded(PumpOrder[trackIdx])
  /\ AwaitPumpsFrom(trackIdx + 1)
  /\ UNCHANGED << cfgVars, is_connected, roomOpen, tts_audio_queues, pumpVars,
                  ingestVars, sttPc, dispatchVars, msgs, enq, faults, supPc >>
  /\ UNCHANGED << legacyVars, otherVars >>

\* cleanup(): the room is disconnected when there is a connected room.
RoomAfterCleanup == IF is_connected THEN FALSE ELSE roomOpen

RunCleanup ==
  /\ runPc = "cleanup"
  /\ roomOpen' = RoomAfterCleanup
  /\ runPc' = "closed"
  /\ UNCHANGED << cfgVars, is_connected, trackIdx, tts_audio_queues, pumpVars,
                  ingestVars, sttPc, dispatchVars, msgs, enq, faults, supPc >>
  /\ UNCHANGED << legacyVars, otherVars >>

\* ------------------------------------------------- SessionSupervisor.stop
\* task.cancel() in stop(). The CancelledError reaches run() at the await it
\* is suspended on:
\*  - during startup, in `await audio_q.put(None)` and in `await q.put(None)`
\*    nothing catches it before the outer finally, which calls cleanup();
\*  - in `await feed_task` the feed task is cancelled, returns, and the
\*    finally block runs;
\*  - in `await stt_task` it is caught and logged (the recognition thread is
\*    not stopped by it) and the "Stop pumps" loop runs;
\*  - in `await t` the awaited pump is cancelled and returns, and the loop
\*    goes on; when that pump had just finished the error leaves the loop.
CancelRun ==
  CASE runPc \in {"connecting", "metadata", "tracks", "wait_track", "put_none",
                  "sentinels"} ->
         /\ runPc' = "cleanup"
         /\ UNCHANGED << trackIdx, pumpPc, feedPc, audio_q, tts_audio_queues,
                         sentinelPut >>
    [] runPc = "await_feed" ->
         /\ feedPc' = "done"
         /\ IF AudioQFull
            THEN runPc' = "put_none" /\ UNCHANGED audio_q
            ELSE runPc' = "await_stt" /\ audio_q' = Append(audio_q, None)
         /\ UNCHANGED << trackIdx, pumpPc, tts_audio_queues, sentinelPut >>
    [] runPc = "await_stt" ->
         /\ StopPumpsFrom(1)
         /\ UNCHANGED << pumpPc, feedPc, audio_q >>
    [] runPc = "await_pumps" ->
         IF ~PumpEnded(PumpOrder[trackIdx])
         THEN /\ pumpPc' = [pumpPc EXCEPT ![PumpOrder[trackIdx]] = "cancelled"]
              /\ UNCHANGED << runPc, trackIdx, feedPc, audio_q, tts_audio_queues,
                              sentinelPut >>
         ELSE /\ runPc' = "cleanup"
              /\ UNCHANGED << trackIdx, pumpPc, feedPc, audio_q, tts_audio_queues,
                              sentinelPut >>
    [] runPc \in {"cleanup", "closed"} ->
         UNCHANGED << runPc, trackIdx, pumpPc, feedPc, audio_q, tts_audio_queues,
                      sentinelPut >>

\* stop() on a bot that is not connected: bot.cleanup() has nothing to await
\* and the run task is cancelled at once.
StopNotConnected ==
  /\ supPc = "idle"
  /\ input.stop
  /\ ~is_connected
  /\ supPc' = "stopped"
  /\ CancelRun
  /\ UNCHANGED << cfgVars, is_connected, roomOpen, track, sentinelTaken, lateFrames,
                  framesIn, sttPc, seq_counter, results, hpc, msgs, enq, faults >>
  /\ UNCHANGED << legacyVars, otherVars >>

\* stop() on a connected bot first awaits bot.cleanup(), which disconnects
\* the room.
StopCleanup ==
  /\ supPc = "idle"
  /\ input.stop
  /\ is_connected
  /\ roomOpen' = RoomAfterCleanup
  /\ supPc' = "cancel"
  /\ UNCHANGED << cfgVars, is_connected, runPc, trackIdx, tts_audio_queues, pumpVars,
                  ingestVars, sttPc, dispatchVars, msgs, enq, faults >>
  /\ UNCHANGED << legacyVars, otherVars >>

\* stop() after bot.cleanup() returned: the run task is cancelled.
StopCancel ==
  /\ supPc = "cancel"
  /\ supPc' = "stopped"
  /\ CancelRun
  /\ UNCHANGED << cfgVars, is_connected, roomOpen, track, sentinelTaken, lateFrames,
                  framesIn, sttPc, seq_counter, results, hpc, msgs, enq, faults >>
  /\ UNCHANGED << legacyVars, otherVars >>

\* ------------------------------------------------------------------- Next
Handlers == DOMAIN hpc

Next ==
  \/ Connect
  \/ ConnectFail
  \/ LoadRoomMetadata
  \/ \E ok \in BOOLEAN : PublishTrack(ok)
  \/ StartTasks
  \/ NoAudioTrack
  \/ FrameArrives
  \/ FeedResume
  \/ StreamEnds
  \/ SttGetChunk
  \/ SttError
  \/ \E fin \in BOOLEAN : ResultArrives(fin)
  \/ \E h \in Handlers : ThreadStart(h)
  \/ \E h \in Handlers : TranslateOk(h)
  \/ \E h \in Handlers : TranslateFail(h)
  \/ \E h \in Handlers : SynthOk(h)
  \/ \E h \in Handlers : SynthFail(h)
  \/ \E h \in Handlers : PutCall(h)
  \/ \E h \in Handlers : PutResume(h)
  \/ \E p \in DOMAIN pumpPc : PumpSentinel(p)
  \/ \E p \in DOMAIN pumpPc : PumpWrite(p)
  \/ \E p \in DOMAIN pumpPc, n \in 0..(SegFrames - 1) : PumpCrash(p, n)
  \/ RunFeedDone
  \/ RunPutNone
  \/ RunSttDone
  \/ RunPutSentinel
  \/ RunAwaitPump
  \/ RunCleanup
  \/ StopNotConnected
  \/ StopCleanup
  \/ StopCancel

Spec == Init /\ [][Next]_vars

\* ------------------------------------------------------------- scheduling
\* The steps the event loop takes by itself once they are ready: a task that
\* can run is run, a call to an engine returns. Arriving frames and results,
\* failures, the end of the input stream and SessionSupervisor.stop are the
\* environment's and may never happen.
SystemNext ==
  \/ Connect
  \/ LoadRoomMetadata
  \/ PublishTrack(TRUE)
  \/ FeedResume
  \/ SttGetChunk
  \/ \E h \in Handlers : ThreadStart(h)
  \/ \E h \in Handlers : TranslateOk(h)
  \/ \E h \in Handlers : SynthOk(h)
  \/ \E h \in Handlers : PutCall(h)
  \/ \E h \in Handlers : PutResume(h)
  \/ \E p \in DOMAIN pumpPc : PumpSentinel(p)
  \/ \E p \in DOMAIN pumpPc : PumpWrite(p)
  \/ RunFeedDone
  \/ RunPutNone
  \/ RunSttDone
  \/ RunPutSentinel
  \/ RunAwaitPump
  \/ RunCleanup
  \/ StopCancel

FairSpec == Spec /\ WF_vars(SystemNext)

\* =========================================================== legacy worker
MaxTranscriptions == 2

LegacyInputs ==
  { LegacyConfig("en", <<"es", "fr">>, <<"es">>),
    LegacyConfig("en", <<"es">>, <<"es", "fr">>) }

botVars == << input, primary_lang, translation_targets, audio_targets, voice_by_lang,
           streaming_config, is_connected,
              roomOpen, runPc, trackIdx, tts_audio_queues, pumpPc, track, audio_q,
              framesIn, feedPc, sttPc, seq_counter, results, hpc, msgs, enq,
              sentinelPut, sentinelTaken, lateFrames, faults, supPc >>

\* The TTSRequest made for transcription k.
TtsRequest(k) == <<k, 1>>

\* MessageData sent on the data channel: it has no sequence id.
LegacyMsg(type, l, text) == [type |-> type, lang |-> l, text |-> text]

\* One iteration of _setup_audio_tracks: setup_audio_track publishes the
\* track and creates the language's queue and task, or raises and the
\* language is skipped.
SetupAudioTrack(ok) ==
  /\ workerPc = "setup"
  /\ setupIdx <= Len(worker_config.audio_targets)
  /\ LET l == worker_config.audio_targets[setupIdx]
     IN IF ok
        THEN /\ tts_queues' = (l :> <<>>) @@ tts_queues
             /\ tts_tasks' = (l :> "get") @@ tts_tasks
        ELSE UNCHANGED << tts_queues, tts_tasks >>
  /\ setupIdx' = setupIdx + 1
  /\ UNCHANGED << worker_config, workerPc, audio_source, transcriptions, tpc,
                  engine_raised, published, tts_sentinel_taken, tts_late, ppc, botVars, otherVars >>

\* initialize returns and start sets _running.
WorkerStart ==
  /\ workerPc = "setup"
  /\ setupIdx > Len(worker_config.audio_targets)
  /\ workerPc' = "running"
  /\ UNCHANGED << worker_config, setupIdx, tts_queues, tts_tasks, audio_source,
                  transcriptions, tpc, engine_raised, published, tts_sentinel_taken,
                  tts_late, ppc, botVars, otherVars >>

\* _handle_transcription: an interim result is ignored; for a final one
\* the task _publish_transcription is created, which sends the caption
\* message and waits for that publish to return, and one _handle_translation
\* per translation target is started (the event handlers are registered
\* before the tracks are set up).
HandleTranscription(fin) ==
  /\ workerPc \in {"setup", "running"}
  /\ Len(transcriptions) < MaxTranscriptions
  /\ transcriptions' = Append(transcriptions, fin)
  /\ LET k == Len(transcriptions) + 1
         src == worker_config.primary_language
     IN IF fin
        THEN /\ published' = published \cup {LegacyMsg("caption", src, <<src, k>>)}
             /\ ppc' = (k :> "original") @@ ppc
             /\ tpc' = [h \in {<<k, l>> : l \in Range(worker_config.translation_targets)}
                          |-> "translate"]
                       @@ tpc
        ELSE UNCHANGED << published, tpc, ppc >>
  /\ UNCHANGED << worker_config, workerPc, setupIdx, tts_queues, tts_tasks,
                  audio_source, engine_raised, tts_sentinel_taken, tts_late,
                  botVars, otherVars >>

\* DataPublisher.publish_transcription after the caption publish returned:
\* the original-language-text message is sent.
PublishOriginal(k) ==
  /\ k \in DOMAIN ppc
  /\ ppc[k] = "original"
  /\ published' = published \cup
        {LegacyMsg("original-language-text", worker_config.primary_language,
                   <<worker_config.primary_language, k>>)}
  /\ ppc' = [ppc EXCEPT ![k] = "done"]
  /\ UNCHANGED << worker_config, workerPc, setupIdx, tts_queues, tts_tasks,
                  audio_source, transcriptions, tpc, engine_raised,
                  tts_sentinel_taken, tts_late, botVars, otherVars >>

\* The text of the TranslationResult returned to handler h.
TranslationText(h) ==
  IF h \in engine_raised
  THEN <<worker_config.primary_language, h[1]>>
  ELSE <<h[2], h[1]>>

\* GoogleTranslateProvider.translate: the request succeeds, or it raises and
\* the exception is logged and a result holding the original text is
\* returned; nothing is raised to _handle_translation.
Translate(h, raised) ==
  /\ tpc[h] = "translate"
  /\ engine_raised' = IF raised THEN engine_raised \cup {h} ELSE engine_raised
  /\ tpc' = [tpc EXCEPT ![h] = "publish"]
  /\ UNCHANGED << worker_config, workerPc, setupIdx, tts_queues, tts_tasks,
                  audio_source, transcriptions, published, tts_sentinel_taken,
                  tts_late, ppc, botVars, otherVars >>

\* _handle_translation after translate returned: publish_translation.
PublishTranslation(h) ==
  /\ tpc[h] = "publish"
  /\ published' = published \cup
        {LegacyMsg("translation-text", h[2], TranslationText(h))}
  /\ tpc' = [tpc EXCEPT ![h] =
               IF h[2] \in Range(worker_config.audio_targets) THEN "queue" ELSE "done"]
  /\ UNCHANGED << worker_config, workerPc, setupIdx, tts_queues, tts_tasks,
                  audio_source, transcriptions, engine_raised, tts_sentinel_taken,
                  tts_late, ppc, botVars, otherVars >>

\* queue_tts_request: put on the language's unbounded queue, or a warning
\* when the language has none.
QueueTtsRequest(h) ==
  /\ tpc[h] = "queue"
  /\ tts_queues' = IF h[2] \in DOMAIN tts_queues
                   THEN [tts_queues EXCEPT ![h[2]] = Append(@, TtsRequest(h[1]))]
                   ELSE tts_queues
  /\ tpc' = [tpc EXCEPT ![h] = "done"]
  /\ UNCHANGED << worker_config, workerPc, setupIdx, tts_tasks, audio_source,
                  transcriptions, engine_raised, published, tts_sentinel_taken,
                  tts_late, ppc, botVars, otherVars >>

\* _process_tts_queue dequeues a request: it is synthesized and its frames
\* are published, or an exception is logged and the loop goes on.
ProcessTtsRequest(l, ok) ==
  /\ l \in DOMAIN tts_tasks
  /\ tts_tasks[l] = "get"
  /\ l \in DOMAIN tts_queues
  /\ tts_queues[l] # <<>>
  /\ QueueHead(tts_queues[l]) # None
  /\ tts_queues' = [tts_queues EXCEPT ![l] = QueueRest(@)]
  /\ IF ok
     THEN /\ audio_source' = [audio_source EXCEPT ![l] = Append(@, QueueHead(tts_queues[l]))]
          /\ tts_late' = IF l \in tts_sentinel_taken THEN tts_late \cup {l} ELSE tts_late
     ELSE UNCHANGED << audio_source, tts_late >>
  /\ UNCHANGED << worker_config, workerPc, setupIdx, tts_tasks, transcriptions, tpc,
                  engine_raised, published, tts_sentinel_taken, ppc, botVars, otherVars >>

\* _process_tts_queue dequeues None and breaks out of its loop.
ProcessTtsSentinel(l) ==
  /\ l \in DOMAIN tts_tasks
  /\ tts_tasks[l] = "get"
  /\ l \in DOMAIN tts_queues
  /\ tts_queues[l] # <<>>
  /\ QueueHead(tts_queues[l]) = None
  /\ tts_queues' = [tts_queues EXCEPT ![l] = QueueRest(@)]
  /\ tts_tasks' = [tts_tasks EXCEPT ![l] = "done"]
  /\ tts_sentinel_taken' = tts_sentinel_taken \cup {l}
  /\ UNCHANGED << worker_config, workerPc, setupIdx, audio_source, transcriptions,
                  tpc, engine_raised, published, tts_late, ppc, botVars, otherVars >>

\* stop -> cleanup -> RoomManager.cleanup: None is put on every queue (the
\* queues are unbounded, no put suspends).
CleanupPutNone ==
  /\ workerPc = "running"
  /\ tts_queues' = [l \in DOMAIN tts_queues |-> Append(tts_queues[l], None)]
  /\ workerPc' = "gather"
  /\ UNCHANGED << worker_config, setupIdx, tts_tasks, audio_source, transcriptions,
                  tpc, engine_raised, published, tts_sentinel_taken, tts_late,
                  ppc, botVars, otherVars >>

\* RoomManager.cleanup after gather returned: the references are cleared.
CleanupClear ==
  /\ workerPc = "gather"
  /\ \A l \in DOMAIN tts_tasks : tts_tasks[l] = "done"
  /\ tts_queues' = << >>
  /\ tts_tasks' = << >>
  /\ workerPc' = "stopped"
  /\ UNCHANGED << worker_config, setupIdx, audio_source, transcriptions, tpc,
                  engine_raised, published, tts_sentinel_taken, tts_late, ppc, botVars, otherVars >>

LegacyHandlers == DOMAIN tpc

NextLegacy ==
  \/ \E ok \in BOOLEAN : SetupAudioTrack(ok)
  \/ WorkerStart
  \/ \E fin \in BOOLEAN : HandleTranscription(fin)
  \/ \E k \in DOMAIN ppc : PublishOriginal(k)
  \/ \E h \in LegacyHandlers, raised \in BOOLEAN : Translate(h, raised)
  \/ \E h \in LegacyHandlers : PublishTranslation(h)
  \/ \E h \in LegacyHandlers : QueueTtsRequest(h)
  \/ \E l \in Langs, ok \in BOOLEAN : ProcessTtsRequest(l, ok)
  \/ \E l \in Langs : ProcessTtsSentinel(l)
  \/ CleanupPutNone
  \/ CleanupClear

InitLegacy == BotInit({NoSession}) /\ LegacyInit(LegacyInputs) /\ OthersOff

SpecLegacy == InitLegacy /\ [][NextLegacy]_vars

\* ------------------------------------------------- configuration sessions
MaxOutputs == 2

\* The entries an outputs list is made of: any language tag (the empty one
\* included) with any combination of the two flags and no voice, and target
\* languages with captions, audio and one of two voices.
OutputEntries ==
  {Out(l, c, a) : l \in {"", "en", "es", "fr"}, c \in BOOLEAN, a \in BOOLEAN}
    \cup {OutV(l, TRUE, TRUE, v) : l \in {"es", "fr"}, v \in {"voice-a", "voice-b"}}

OutputLists == UNION {[1..n -> OutputEntries] : n \in 0..MaxOutputs}

\* Room metadata: no, the constructor's or another source language, and any
\* outputs list.
MetadataInputs ==
  {[sourceLanguage |-> src, outputs |-> outs] :
     src \in {"", "en", "es"}, outs \in OutputLists}

\* Sessions that only resolve their configuration: a constructor list and
\* room metadata, no audio and no stop request.
ConfigInputs ==
  {Scenario(codes, md, 0, 0, FALSE) :
     codes \in {<<"en">>, <<"en", "es">>, <<"en", "es", "fr">>}, md \in MetadataInputs}

InitConfig == BotInit(ConfigInputs) /\ LegacyInit({LegacyOff}) /\ OthersOff

\* run() up to the end of load_room_metadata.
NextConfig ==
  \/ Connect
  \/ ConnectFail
  \/ LoadRoomMetadata

SpecConfig == InitConfig /\ [][NextConfig]_vars

\* config.update_config_from_metadata over parse_room_metadata: the source
\* language replaces the configured one when given, and the targets are
\* always replaced by the ones the outputs name.
UpdateConfigFromMetadata(config, md) ==
  LET prim == IF md.sourceLanguage # "" THEN md.sourceLanguage ELSE config.primary_language
      keep(l) == l # "" /\ l # prim
  IN LegacyConfig(prim,
                  SelectSeq(Dedup(CaptionLangs(md.outputs)), keep),
                  SelectSeq(Dedup(AudioLangs(md.outputs)), keep))

\* ------------------------------------------------------------- re-framing
MaxSamples == 5
FrameSamples == 2

\* The payloads to cut: every sample sequence up to MaxSamples, silence (0)
\* included among the sample values.
Payloads == UNION {[1..n -> {0, 1, 2}] : n \in 0..MaxSamples}

Zeros(n) == [i \in 1..n |-> 0]

Min(a, b) == IF a < b THEN a ELSE b

\* A partial frame handed on as it is.
NoPad(frame_data, frame_samples) == frame_data

\* _pump: a frame shorter than frame_samples is copied into a zero frame of
\* full length.
PadFrame(frame_data, frame_samples) ==
  IF Len(frame_data) < frame_samples
  THEN frame_data \o Zeros(frame_samples - Len(frame_data))
  ELSE frame_data

\* AudioConverter._publish_audio_frames: the same padding.
ConverterPad(frame_data, frame_samples) ==
  IF Len(frame_data) < frame_samples
  THEN frame_data \o Zeros(frame_samples - Len(frame_data))
  ELSE frame_data

\* One pass of _pump's inner loop: pcm[idx:end] is padded and captured.
PumpCaptureFrame ==
  /\ framer = "pump"
  /\ idx < Len(pcm)
  /\ LET end == Min(idx + FrameSamples, Len(pcm))
         frame_data == SubSeq(pcm, idx + 1, end)
     IN /\ Len(frame_data) # 0
        /\ captured' = Append(captured, PadFrame(frame_data, FrameSamples))
  /\ idx' = idx + FrameSamples
  /\ UNCHANGED << framer, pcm, botVars, legacyVars, codecVars, supervisorVars, managerVars,
                  processorVars >>

\* One pass of the loop of _publish_audio_frames over
\* range(0, len(audio_data), frame_samples).
ConverterCaptureFrame ==
  /\ framer = "converter"
  /\ idx < Len(pcm)
  /\ LET frame_data == SubSeq(pcm, idx + 1, Min(idx + FrameSamples, Len(pcm)))
     IN captured' = Append(captured, ConverterPad(frame_data, FrameSamples))
  /\ idx' = idx + FrameSamples
  /\ UNCHANGED << framer, pcm, botVars, legacyVars, codecVars, supervisorVars, managerVars,
                  processorVars >>

InitFraming ==
  /\ BotInit({NoSession}) /\ LegacyInit({LegacyOff})
  /\ FramingInit({"pump", "converter"}, Payloads)
  /\ CodecOff /\ SupervisorInit /\ ManagerInit /\ ProcessorInit

NextFraming ==
  \/ PumpCaptureFrame
  \/ ConverterCaptureFrame

SpecFraming == InitFraming /\ [][NextFraming]_vars

\* ------------------------------------------------------ SessionSupervisor
\* The room's key is in sessions: stop has not popped it.
SessionRegistered == supPc # "stopped"

\* The run task of the session's bot is done.
RunTaskDone == runPc = "closed"

\* SessionSupervisor.start for the room of this session: already_running
\* when the key is registered with a task that is not done; otherwise a new
\* TranslationBot is created, its run task is started and both are stored.
StartSession ==
  /\ restart # "started"
  /\ restart' = IF SessionRegistered /\ ~RunTaskDone THEN "already_running" ELSE "started"
  /\ UNCHANGED << botVars, legacyVars, framingVars, codecVars, managerVars, processorVars >>

NextSupervisor ==
  \/ Next
  \/ StartSession

SpecSupervisor == Init /\ [][NextSupervisor]_vars

\* ---------------------------------------------------------- WorkerManager
\* The calls of _start_processing_event that are followed.
MaxAttempts == 3

\* The ids of the events the events table can hold.
Events == {1, 2}

Attempt(e, w) == [event |-> e, room |-> "connected", worker |-> w, handler |-> FALSE]

\* room.disconnect() on the room of attempt i (nothing for 0, None).
Disconnect(atts, i) ==
  IF i = 0 THEN atts ELSE [atts EXCEPT ![i].room = "disconnected"]

\* The "disconnected" events a disconnect of room i adds: one when the room
\* was connected and on_disconnected is registered on it.
Emitted(i) ==
  IF i # 0 /\ attempts[i].room = "connected" /\ attempts[i].handler THEN {i} ELSE {}

StopCall(pc, w, r) == [pc |-> pc, w |-> w, r |-> r]

SetStop(x, call) ==
  [y \in DOMAIN stopPc \cup {x} |-> IF y = x THEN call ELSE stopPc[y]]

\* The end of the except branch of _start_processing_event and of the
\* finally of _stop_current_worker.
ResetState ==
  /\ current_worker' = 0
  /\ current_room' = 0
  /\ processing_event_id' = 0

OthersUnchangedByManager ==
  UNCHANGED << botVars, legacyVars, framingVars, codecVars, supervisorVars, processorVars >>

\* _check_for_work reads the live events (only the first one counts): with
\* none, the current worker is stopped; with the event already processed,
\* nothing happens; otherwise the current worker is stopped and the event is
\* started.
CheckForWork(active) ==
  /\ mgrPc = "sleep"
  /\ active # 0 /\ processing_event_id # active => Len(attempts) < MaxAttempts
  /\ IF active # 0 /\ processing_event_id = active
     THEN UNCHANGED << mgrPc, mgrEvent, stopPc >>
     ELSE IF current_worker # 0
     THEN /\ mgrPc' = "stopping"
          /\ mgrEvent' = active
          /\ stopPc' = SetStop(0, StopCall("cleanup", current_worker, 0))
     ELSE /\ mgrPc' = IF active # 0 THEN "connect" ELSE "sleep"
          /\ mgrEvent' = active
          /\ UNCHANGED stopPc
  /\ UNCHANGED << attempts, current_worker, current_room, processing_event_id,
                  disconnectedEvents >>
  /\ OthersUnchangedByManager

\* The task created by on_disconnected starts _stop_current_worker: it
\* returns when there is no current worker, and otherwise awaits the cleanup
\* of whatever worker is current.
StopEnter(x) ==
  /\ x \in DOMAIN stopPc /\ x # 0
  /\ stopPc[x].pc = "start"
  /\ stopPc' = IF current_worker = 0
               THEN SetStop(x, StopCall("done", 0, 0))
               ELSE SetStop(x, StopCall("cleanup", current_worker, 0))
  /\ UNCHANGED << attempts, current_worker, current_room, processing_event_id,
                  mgrPc, mgrEvent, disconnectedEvents >>
  /\ OthersUnchangedByManager

\* What the main loop does when its awaited _stop_current_worker returned.
AfterStop(x) ==
  IF x = 0
  THEN mgrPc' = IF mgrEvent # 0 THEN "connect" ELSE "sleep"
  ELSE UNCHANGED mgrPc

\* worker.cleanup() returned: the room that is current now is disconnected,
\* or, with none, the state is reset.
StopCleanupDone(x) ==
  /\ x \in DOMAIN stopPc
  /\ stopPc[x].pc = "cleanup"
  /\ attempts' = [attempts EXCEPT ![stopPc[x].w].worker = "cleaned"]
  /\ IF current_room # 0
     THEN /\ stopPc' = SetStop(x, StopCall("disconnect", stopPc[x].w, current_room))
          /\ UNCHANGED << current_worker, current_room, processing_event_id, mgrPc >>
     ELSE /\ stopPc' = SetStop(x, StopCall("done", stopPc[x].w, 0))
          /\ ResetState
          /\ AfterStop(x)
  /\ UNCHANGED << mgrEvent, disconnectedEvents >>
  /\ OthersUnchangedByManager

\* current_room.disconnect() returned; the finally resets the state.
StopDisconnected(x) ==
  /\ x \in DOMAIN stopPc
  /\ stopPc[x].pc = "disconnect"
  /\ attempts' = Disconnect(attempts, stopPc[x].r)
  /\ disconnectedEvents' = disconnectedEvents \cup Emitted(stopPc[x].r)
  /\ stopPc' = SetStop(x, StopCall("done", stopPc[x].w, stopPc[x].r))
  /\ ResetState
  /\ AfterStop(x)
  /\ UNCHANGED mgrEvent
  /\ OthersUnchangedByManager

\* The except branch of _start_processing_event: self.current_room, when
\* set, is disconnected, and the state is reset.
StartFailed(atts) ==
  /\ attempts' = Disconnect(atts, current_room)
  /\ disconnectedEvents' = disconnectedEvents \cup Emitted(current_room)
  /\ ResetState
  /\ mgrPc' = "sleep"

\* _start_processing_event up to worker.initialize(): room.connect raises;
\* or the room is connected and the configuration is invalid; or it is
\* valid and the worker is created.
StartConnect(outcome) ==
  /\ mgrPc = "connect"
  /\ CASE outcome = "connect_failed" -> StartFailed(attempts)
       [] outcome = "invalid_config" ->
            StartFailed(Append(attempts, Attempt(mgrEvent, "failed")))
       [] outcome = "valid" ->
            /\ attempts' = Append(attempts, Attempt(mgrEvent, "initializing"))
            /\ mgrPc' = "initialize"
            /\ UNCHANGED << current_worker, current_room, processing_event_id,
                            disconnectedEvents >>
  /\ UNCHANGED << mgrEvent, stopPc >>
  /\ OthersUnchangedByManager

\* worker.initialize() returns and worker.start() with it: the worker, the
\* room and the event id are stored and on_disconnected is registered; or
\* initialize raises.
StartInitialize(ok) ==
  /\ mgrPc = "initialize"
  /\ LET i == Len(attempts)
     IN IF ok
        THEN /\ attempts' = [attempts EXCEPT ![i].worker = "running", ![i].handler = TRUE]
             /\ current_worker' = i
             /\ current_room' = i
             /\ processing_event_id' = attempts[i].event
             /\ mgrPc' = "sleep"
             /\ UNCHANGED disconnectedEvents
        ELSE StartFailed([attempts EXCEPT ![i].worker = "failed"])
  /\ UNCHANGED << mgrEvent, stopPc >>
  /\ OthersUnchangedByManager

\* The server closes the room of attempt i.
RoomDrops(i) ==
  /\ i \in DOMAIN attempts
  /\ attempts[i].room = "connected"
  /\ attempts[i].handler
  /\ attempts' = Disconnect(attempts, i)
  /\ disconnectedEvents' = disconnectedEvents \cup {i}
  /\ UNCHANGED << current_worker, current_room, processing_event_id, mgrPc, mgrEvent,
                  stopPc >>
  /\ OthersUnchangedByManager

\* on_disconnected of room i runs: it creates a task for
\* _stop_current_worker.
OnDisconnected(i) ==
  /\ i \in disconnectedEvents
  /\ disconnectedEvents' = disconnectedEvents \ {i}
  /\ stopPc' = SetStop(i, StopCall("start", 0, 0))
  /\ UNCHANGED << attempts, current_worker, current_room, processing_event_id,
                  mgrPc, mgrEvent >>
  /\ OthersUnchangedByManager

InitManager ==
  /\ BotInit({NoSession}) /\ LegacyInit({LegacyOff})
  /\ OthersOff

NextManager ==
  \/ \E active \in {0} \cup Events : CheckForWork(active)
  \/ \E x \in DOMAIN stopPc : StopEnter(x)
  \/ \E x \in DOMAIN stopPc : StopCleanupDone(x)
  \/ \E x \in DOMAIN stopPc : StopDisconnected(x)
  \/ \E outcome \in {"connect_failed", "invalid_config", "valid"} : StartConnect(outcome)
  \/ \E ok \in BOOLEAN : StartInitialize(ok)
  \/ \E i \in DOMAIN attempts : RoomDrops(i)
  \/ \E i \in DOMAIN attempts : OnDisconnected(i)

SpecManager == InitManager /\ [][NextManager]_vars

\* --------------------------------------------------------- AudioProcessor
OthersUnchangedByProcessor ==
  UNCHANGED << botVars, legacyVars, framingVars, codecVars, supervisorVars, managerVars >>

\* The track delivers a frame: _process_audio_frames pushes it, and
\* push_frame converts and queues it unless the STT stream is closed.
FramePushed ==
  /\ framesPc = "iterating"
  /\ audio_stream = "open"
  /\ pushed < MaxFrames
  /\ pushed' = pushed + 1
  /\ stt_audio_queue' = IF stt_closed THEN stt_audio_queue ELSE stt_audio_queue + 1
  /\ UNCHANGED << audio_stream, framesPc, resultsPc, processPc, active_streams,
                  stt_closed, stream_task, result_queue, recognized >>
  /\ OthersUnchangedByProcessor

\* The source track ends or is unsubscribed: its audio stream ends.
\* _handle_audio_track_removed only logs.
TrackEnds ==
  /\ audio_stream = "open"
  /\ audio_stream' = "ended"
  /\ UNCHANGED << framesPc, resultsPc, processPc, active_streams, stt_closed,
                  stream_task, stt_audio_queue, result_queue, pushed, recognized >>
  /\ OthersUnchangedByProcessor

\* The iteration over the audio stream is over: _process_audio_frames
\* returns.
FramesLoopEnds ==
  /\ framesPc = "iterating"
  /\ audio_stream # "open"
  /\ framesPc' = "done"
  /\ UNCHANGED << audio_stream, resultsPc, processPc, active_streams, stt_closed,
                  stream_task, stt_audio_queue, result_queue, pushed, recognized >>
  /\ OthersUnchangedByProcessor

\* GoogleSTTStream.__anext__ is called: StopAsyncIteration when the stream
\* is closed; otherwise the streaming task is started if there is none, and
\* the call waits on the result queue.
SttAnext ==
  /\ resultsPc = "next"
  /\ IF stt_closed
     THEN resultsPc' = "done" /\ UNCHANGED stream_task
     ELSE /\ resultsPc' = "waiting"
          /\ stream_task' = IF stream_task = "none" THEN "running" ELSE stream_task
  /\ UNCHANGED << audio_stream, framesPc, processPc, active_streams, stt_closed,
                  stt_audio_queue, result_queue, pushed, recognized >>
  /\ OthersUnchangedByProcessor

\* __anext__ gets a result from the queue; _process_stt_results hands it to
\* on_transcription and asks for the next one.
SttResultTaken ==
  /\ resultsPc = "waiting"
  /\ result_queue > 0
  /\ result_queue' = result_queue - 1
  /\ resultsPc' = "next"
  /\ UNCHANGED << audio_stream, framesPc, processPc, active_streams, stt_closed,
                  stream_task, stt_audio_queue, pushed, recognized >>
  /\ OthersUnchangedByProcessor

\* The wait of __anext__ times out on a closed stream: StopAsyncIteration.
\* (On a stream that is not closed the timeout calls __anext__ again and
\* the state stays as it is.)
SttTimeoutClosed ==
  /\ resultsPc = "waiting"
  /\ result_queue = 0
  /\ stt_closed
  /\ resultsPc' = "done"
  /\ UNCHANGED << audio_stream, framesPc, processPc, active_streams, stt_closed,
                  stream_task, stt_audio_queue, result_queue, pushed, recognized >>
  /\ OthersUnchangedByProcessor

\* request_generator takes a payload from the audio queue and sends it.
StreamSendsAudio ==
  /\ stream_task = "running"
  /\ ~stt_closed
  /\ stt_audio_queue > 0
  /\ stt_audio_queue' = stt_audio_queue - 1
  /\ UNCHANGED << audio_stream, framesPc, resultsPc, processPc, active_streams,
                  stt_closed, stream_task, result_queue, pushed, recognized >>
  /\ OthersUnchangedByProcessor

\* _stream_audio receives a final result and puts it on the result queue.
StreamResult ==
  /\ stream_task = "running"
  /\ recognized < MaxTranscriptions
  /\ recognized' = recognized + 1
  /\ result_queue' = result_queue + 1
  /\ UNCHANGED << audio_stream, framesPc, resultsPc, processPc, active_streams,
                  stt_closed, stream_task, stt_audio_queue, pushed >>
  /\ OthersUnchangedByProcessor

\* The recognition stream ends or raises: _stream_audio returns.
StreamTaskEnds ==
  /\ stream_task = "running"
  /\ stream_task' = "done"
  /\ UNCHANGED << audio_stream, framesPc, resultsPc, processPc, active_streams,
                  stt_closed, stt_audio_queue, result_queue, pushed, recognized >>
  /\ OthersUnchangedByProcessor

\* _cleanup_track on a track whose entry is still there: the entry is
\* popped, the audio stream and the STT stream are closed.
CleanupTrack ==
  /\ active_streams' = FALSE
  /\ audio_stream' = IF active_streams THEN "closed" ELSE audio_stream
  /\ stt_closed' = (stt_closed \/ active_streams)
  /\ stream_task' = IF active_streams /\ stream_task = "running" THEN "done" ELSE stream_task

\* Both coroutines of the gather returned: the finally of
\* process_audio_track cleans the track up.
GatherReturns ==
  /\ processPc = "gather"
  /\ framesPc = "done"
  /\ resultsPc = "done"
  /\ processPc' = "done"
  /\ CleanupTrack
  /\ UNCHANGED << framesPc, resultsPc, stt_audio_queue, result_queue, pushed, recognized >>
  /\ OthersUnchangedByProcessor

\* worker.cleanup() calls cleanup_all.
CleanupAll ==
  /\ active_streams
  /\ CleanupTrack
  /\ UNCHANGED << framesPc, resultsPc, processPc, stt_audio_queue, result_queue, pushed,
                  recognized >>
  /\ OthersUnchangedByProcessor

InitProcessor ==
  /\ BotInit({NoSession}) /\ LegacyInit({LegacyOff})
  /\ OthersOff

\* What the processor and the STT stream do on their own.
ProcessorSystemNext ==
  \/ FramesLoopEnds
  \/ SttAnext
  \/ SttResultTaken
  \/ SttTimeoutClosed
  \/ StreamSendsAudio
  \/ GatherReturns

NextProcessor ==
  \/ FramePushed
  \/ TrackEnds
  \/ FramesLoopEnds
  \/ SttAnext
  \/ SttResultTaken
  \/ SttTimeoutClosed
  \/ StreamSendsAudio
  \/ StreamResult
  \/ StreamTaskEnds
  \/ GatherReturns
  \/ CleanupAll

SpecProcessor == InitProcessor /\ [][NextProcessor]_vars /\ WF_vars(ProcessorSystemNext)

\* ------------------------------------------------------- sample conversion
\* Samples are fractions: the float x is sample / SampleDen. The 16-bit
\* integer type is IntBits wide; FullScale stands for 32767.
SampleDen == 8
IntBits == 4

IntMax == 2 ^ (IntBits - 1) - 1
IntMin == -(2 ^ (IntBits - 1))
FullScale == IntMax

\* The samples tried: every fraction from -2.0 to 2.0.
Samples == (-2 * SampleDen)..(2 * SampleDen)

\* np.clip(pcm, -1.0, 1.0) on a sample in units of 1 / SampleDen.
Clip(x) == IF x > SampleDen THEN SampleDen ELSE IF x < -SampleDen THEN -SampleDen ELSE x

\* The integer part of a / d, rounded toward zero as a C cast does.
TruncDiv(a, d) == IF a >= 0 THEN a \div d ELSE -((-a) \div d)

\* (x * 32767) before the cast, truncated toward zero.
Scaled(x) == TruncDiv(x * FullScale, SampleDen)

\* The low IntBits bits of t read as a signed number.
Wrap(t) == ((t - IntMin) % (2 ^ IntBits)) + IntMin

Saturate(t) == IF t > IntMax THEN IntMax ELSE IF t < IntMin THEN IntMin ELSE t

\* .astype(np.int16): a value the type holds is kept; for any other value
\* the cast is undefined and builds differ: the low bits are kept (x86) or
\* the value saturates (ARM).
AsInt16(t) ==
  IF t \in IntMin..IntMax THEN {t} ELSE {Wrap(t), Saturate(t)}

\* feed_audio: clip, scale, cast.
FeedLinear16(x) == AsInt16(Scaled(Clip(x)))

\* convert_audio_to_linear16 and GoogleSTTStream._convert_frame_to_bytes:
\* scale and cast, without a clip.
UnclippedLinear16(x) == AsInt16(Scaled(x))

FeedAudioConvert ==
  /\ converter = "feed_audio" /\ linear16 = <<>>
  /\ \E v \in FeedLinear16(sample) : linear16' = <<v>>
  /\ UNCHANGED << converter, sample, botVars, legacyVars, framingVars, supervisorVars,
                  managerVars, processorVars >>

ConvertAudioToLinear16 ==
  /\ converter = "convert_audio_to_linear16" /\ linear16 = <<>>
  /\ \E v \in UnclippedLinear16(sample) : linear16' = <<v>>
  /\ UNCHANGED << converter, sample, botVars, legacyVars, framingVars, supervisorVars,
                  managerVars, processorVars >>

ConvertFrameToBytes ==
  /\ converter = "convert_frame_to_bytes" /\ linear16 = <<>>
  /\ \E v \in UnclippedLinear16(sample) : linear16' = <<v>>
  /\ UNCHANGED << converter, sample, botVars, legacyVars, framingVars, supervisorVars,
                  managerVars, processorVars >>

InitCodec ==
  /\ BotInit({NoSession}) /\ LegacyInit({LegacyOff}) /\ FramingOff /\ SupervisorInit
  /\ ManagerInit /\ ProcessorInit
  /\ CodecInit({"feed_audio", "convert_audio_to_linear16", "convert_frame_to_bytes"}, Samples)

NextCodec ==
  \/ FeedAudioConvert
  \/ ConvertAudioToLinear16
  \/ ConvertFrameToBytes

SpecCodec == InitCodec /\ [][NextCodec]_vars

\* Either worker on its own: a session of TranslationBot with the legacy
\* worker unconfigured, or a configured legacy worker with no bot session.
InitEither == Init \/ InitLegacy

NextEither ==
  \/ worker_config = LegacyOff /\ Next
  \/ input = NoSession /\ NextLegacy

SpecEither == InitEither /\ [][NextEither]_vars

\* ================================================================ claims
FinalsUpTo(k) == Cardinality({j \in 1..k : results[j].final})

\* C1: the original-language-text message of the k-th finalized
\* transcription carries seq = k (strictly increasing and gap-free over the
\* finals, whatever interim results are mixed in).
C1_FinalSeqGapFree ==
  \A m \in msgs :
    (m.type = "original-language-text" /\ m.isFinal) => m.seq = FinalsUpTo(m.text[2])

\* The position of segment x in the put order of a language.
PutPos(l, x) == CHOOSE i \in 1..Len(enq[l]) : enq[l][i] = x

\* Frame i of a track opens a segment.
OpensSegment(t, i) == t[i][2] = 1

\* C2: per language, the frames on the outbound track are the frames of
\* enqueued segments, every segment's frames contiguous and in frame order
\* (never interleaved with another segment's), the segments in the order they
\* were put on the queue, and every segment written whole unless its
\* conversion or capture raised.
C2_TrackFifo ==
  \A l \in Langs :
    LET t == track[l]
    IN /\ \A i \in 1..Len(t) : t[i][1] \in Range(enq[l])
       /\ \A i \in 1..Len(t) :
            \/ OpensSegment(t, i)
            \/ i > 1 /\ t[i - 1] = <<t[i][1], t[i][2] - 1>>
       /\ \A i, j \in 1..Len(t) :
            (i < j /\ OpensSegment(t, i) /\ OpensSegment(t, j))
              => PutPos(l, t[i][1]) < PutPos(l, t[j][1])
       /\ \A i \in 1..Len(t) :
            (t[i][2] < SegFrames /\ (i = Len(t) \/ OpensSegment(t, i + 1))) => faults > 0

\* Two segments of one language were written, both whole.
C2_Witness ==
  \E l \in Langs :
    /\ Len(enq[l]) >= 2
    /\ track[l] = FramesOf(enq[l][1]) \o FramesOf(enq[l][2])

\* Handlers suspended in `await q.put(...)` on the queue of language l.
PutWaiting(l) == {h \in Handlers : hpc[h] = "put_wait" /\ HLang(h) = l}

\* Nothing was taken from the queue of language l yet.
NoDequeue(l) ==
  /\ track[l] = <<>>
  /\ l \notin sentinelTaken
  /\ \A p \in DOMAIN pumpPc : audio_targets[p] = l => pumpPc[p] = "wait"

\* C3: once TtsQueueMax + 1 segments were pushed to a language's queue with
\* no dequeue in between, no push is waiting for the pump and the queue holds
\* the pushed segments 2..TtsQueueMax+1 in order (the first was evicted).
C3_DropOldest ==
  \A l \in DOMAIN tts_audio_queues :
    (Len(enq[l]) + Cardinality(PutWaiting(l)) = TtsQueueMax + 1 /\ NoDequeue(l)
       /\ l \notin sentinelPut)
      => /\ PutWaiting(l) = {}
         /\ tts_audio_queues[l] = SubSeq(enq[l], 2, TtsQueueMax + 1)

\* C4: pushing an inbound frame never suspends the producer, and the buffer
\* holds at most AudioQMax chunks, the most recent ones, in arrival order.
C4_IngestDropOldest ==
  LET chunks == SelectSeq(audio_q, LAMBDA c : c # None)
  IN /\ feedPc # "blocked"
     /\ Len(chunks) <= AudioQMax
     /\ \A i \in 1..(Len(chunks) - 1) : chunks[i + 1][1] = chunks[i][1] + 1
     /\ chunks # <<>> => chunks[Len(chunks)] = Chunk(framesIn)

\* C5: when the translation engine raised for a handler (text, tgtLang, seq),
\* a translation-text-{tgtLang} message with that seq is published and its
\* text is the source text (here for a room that is still connected).
C5_FallbackText ==
  \A h \in Handlers :
    (hpc[h] = "translate_error" /\ roomOpen)
      => \E m \in msgs :
           /\ m.type = "translation-text" /\ m.lang = HLang(h) /\ m.seq = HSeq(h)
           /\ m.text = <<primary_lang, h[1]>>

\* The messages of one type, language and sequence id.
MsgsOf(type, l, seq) == {m \in msgs : m.type = type /\ m.lang = l /\ m.seq = seq}

\* Every handler of result k has finished.
Settled(k) == \A h \in Handlers : h[1] = k => hpc[h] = "done"

\* C7: for a finalized transcript whose handlers have finished, with no
\* failure and the room connected: one original-language-text message, one
\* translation-text message per caption target, one start and one end
\* translation-audio message per audio target, all with the transcript's seq,
\* and no translation-audio message for a language that is no audio target.
C7_ExactlyOnce ==
  \A k \in 1..Len(results) :
    (results[k].final /\ Settled(k) /\ faults = 0 /\ roomOpen)
      => LET seq == results[k].seq
         IN /\ Cardinality(MsgsOf("original-language-text", primary_lang, seq)) = 1
            /\ \A l \in Range(translation_targets) :
                 Cardinality(MsgsOf("translation-text", l, seq)) = 1
            /\ \A l \in Range(audio_targets) :
                 /\ Cardinality({m \in MsgsOf("translation-audio", l, seq) :
                                   m.status = "start"}) = 1
                 /\ Cardinality({m \in MsgsOf("translation-audio", l, seq) :
                                   m.status = "end"}) = 1
            /\ \A l \in Langs \ Range(audio_targets) :
                 MsgsOf("translation-audio", l, seq) = {}

\* C6: whenever the translation engine failed for a handler, a status
\* "error" message for the handler's language is emitted, tagged with the
\* handler's seq: in TranslationBot (room connected) and in the legacy
\* worker once _handle_translation has finished.
C6_ErrorStatusEmitted ==
  /\ \A h \in Handlers :
       (hpc[h] = "translate_error" /\ roomOpen)
         => \E m \in msgs : m.lang = HLang(h) /\ m.seq = HSeq(h) /\ m.status = "error"
  /\ \A h \in engine_raised :
       tpc[h] = "done"
         => \E m \in published : m.lang = h[2] /\ m.type \in {"status", "error"}

\* C8: no frame is written to a language's track after the shutdown sentinel
\* of that language was dequeued, in TranslationBot and in RoomManager.
C8_SilentAfterSentinel == lateFrames = {} /\ tts_late = {}

\* Shutdown of run has begun (the feed task ended or was cancelled) and has
\* come to stopping the pumps: the recognition task was awaited.
StoppingPumps == feedPc = "done" /\ runPc \in {"sentinels", "await_pumps"}

\* run is at (or past) cleanup() and every pump task has finished.
RunTornDown ==
  /\ runPc \in {"cleanup", "closed"}
  /\ \A p \in DOMAIN pumpPc : PumpEnded(p)

\* C9: once shutdown has come to stopping the pumps, eventually every pump
\* task has finished and run has reached cleanup(): no sentinel put and no
\* pump stays suspended forever.
C9_ShutdownCompletes == StoppingPumps ~> RunTornDown

\* C10: whenever the room is disconnected, the sentinel was put on the queue
\* of every language that has a pump and every pump task has finished.
C10_ReleaseAfterPumps ==
  [][(roomOpen /\ ~roomOpen')
       => /\ \A p \in DOMAIN pumpPc : audio_targets[p] \in sentinelPut
          /\ \A p \in DOMAIN pumpPc : PumpEnded(p)]_vars

\* The recognition task has ended while feed_audio is suspended in its put on
\* the full ingestion buffer, or run() is in its put of the sentinel, in a
\* session the supervisor has not been asked to stop.
FrozenIngestion ==
  /\ sttPc = "done"
  /\ feedPc = "blocked" \/ runPc = "put_none"
  /\ supPc = "idle"

\* run() has reached cleanup().
RunAtCleanup == runPc \in {"cleanup", "closed"}

\* C11: when the recognition stream has ended or failed while a put on the
\* full ingestion buffer is pending (feed_audio's, or run()'s sentinel), that
\* put does not stay suspended forever: the session eventually reaches
\* cleanup().
C11_NeverFrozen == FrozenIngestion ~> RunAtCleanup

\* Handler h waits for an executor thread.
AwaitsThread(h) == hpc[h] \in {"translate", "synth"} /\ ThreadsBusy >= PoolSize

\* Handler g runs a translate or synthesize call in an executor thread.
HoldsThread(g) == hpc[g] \in {"translating", "synthesizing"}

\* C12: target languages are independent: no handle_translation_and_tts
\* invocation of a language B ever waits on a call made for another language
\* A (here: for a thread that a translate or synthesize call of A occupies).
C12_NoCrossLanguageWait ==
  \A h, g \in Handlers :
    ~(AwaitsThread(h) /\ HoldsThread(g) /\ HLang(g) # HLang(h))

\* C13: an interim (is_final = false) recognition result is never translated:
\* no handle_translation_and_tts invocation exists for it and no
\* translation-text message with isFinal = false is published.
C13_InterimNotTranslated ==
  /\ \A h \in Handlers : HFinal(h)
  /\ \A m \in msgs : m.type = "translation-text" => m.isFinal

\* run_stream has just handled an interim result.
InterimHandled ==
  /\ Len(results') = Len(results) + 1
  /\ ~results'[Len(results')].final

\* C14: handling an interim recognition result leaves seq_counter unchanged.
C14_InterimKeepsCounter == [][InterimHandled => seq_counter' = seq_counter]_vars

\* The original-language-text messages published so far.
OriginalMsgs == {m \in msgs : m.type = "original-language-text"}

\* C15: sequence ids are handed out in receipt order, strictly increasing:
\* no two transcript events (and no two of their messages) carry the same
\* seq, and seq_counter is the id of the last event handled by run_stream,
\* which nothing else changes.
C15_SeqAssignedOnce ==
  /\ \A i, j \in 1..Len(results) : i < j => results[i].seq < results[j].seq
  /\ \A m, n \in OriginalMsgs : m.seq = n.seq => m.text = n.text
  /\ \A m \in OriginalMsgs : results[m.text[2]].seq = m.seq
  /\ seq_counter = IF results = <<>> THEN 0 ELSE results[Len(results)].seq

\* Three transcript events, interim and final, were numbered and published.
C15_Witness ==
  /\ Len(results) = 3
  /\ \E i, j \in 1..3 : results[i].final /\ ~results[j].final
  /\ Cardinality(OriginalMsgs) = 3

\* The translation-audio message with the given status of the segment of
\* handler h.
SegmentMsg(h, status) == AudioMsg(HLang(h), status, HSeq(h), h[2])

\* All frames of the segment of handler h are on its language's track.
SegmentWritten(h) == Range(FramesOf(h)) \subseteq Range(track[HLang(h)])

\* C16: once the "end" message of a segment (lang, seq) has been emitted, all
\* frames of that segment have been written to the language's outbound
\* track; and no frame of a segment is on the track before its "start"
\* message was emitted.
C16_EndAfterFrames ==
  \A l \in Langs : \A h \in Range(enq[l]) :
    /\ SegmentMsg(h, "end") \in msgs => SegmentWritten(h)
    /\ (\E i \in 1..Len(track[l]) : track[l][i][1] = h) => SegmentMsg(h, "start") \in msgs

\* The translation-audio messages with the given status published so far.
AudioMsgs(sent, status) ==
  {m \in sent : m.type = "translation-audio" /\ m.status = status}

\* C17: whenever a translation-audio "end" message is emitted for (lang, seq),
\* a "start" message for the same (lang, seq) has been emitted before it.
C17_StartBeforeEnd ==
  [][\A m \in AudioMsgs(msgs', "end") \ msgs :
       \E s \in AudioMsgs(msgs, "start") : s.lang = m.lang /\ s.seq = m.seq]_vars

\* Two segments of one language have had their "start" and "end" emitted.
C17_Witness ==
  \E m, n \in AudioMsgs(msgs, "end") :
    /\ m.lang = n.lang /\ m.seq # n.seq
    /\ \E s \in AudioMsgs(msgs, "start") : s.lang = m.lang /\ s.seq = m.seq

\* The synthesis call of handler h raises in this step.
SynthFailStep(h) == hpc[h] = "synthesizing" /\ hpc'[h] = "synth_error"

\* C18: a synthesis failure for a segment (lang, seq) emits an "error" status
\* message for that language and seq while the room is connected, leaves
\* every queue, pump, track and every other handler (of this and of any
\* other language) as they were, and the failed segment never reaches its
\* language's queue or track.
C18_SynthFailureIsolated ==
  [][\A h \in Handlers :
       /\ SynthFailStep(h) =>
            /\ tts_audio_queues' = tts_audio_queues /\ pumpPc' = pumpPc
            /\ track' = track /\ enq' = enq
            /\ \A g \in Handlers \ {h} : hpc'[g] = hpc[g]
            /\ is_connected /\ roomOpen => SegmentMsg(h, "error") \in msgs'
       /\ hpc'[h] = "synth_error" =>
            /\ h \notin Range(enq'[HLang(h)])
            /\ \A i \in 1..Len(track'[HLang(h)]) : track'[HLang(h)][i][1] # h]_vars

\* The synthesis of one segment failed and its error was reported, and a
\* later segment of the same language was written to the track in full.
C18_Witness ==
  \E h, g \in Handlers :
    /\ hpc[h] = "synth_error" /\ SegmentMsg(h, "error") \in msgs
    /\ HLang(g) = HLang(h) /\ HSeq(g) > HSeq(h) /\ SegmentWritten(g)

\* The recognition stream is open and the engine has another result.
ResultPending == sttPc = "streaming" /\ Len(results) < input.utterances

\* The legacy worker's recognition callback can fire again.
TranscriptionPending ==
  workerPc \in {"setup", "running"} /\ Len(transcriptions) < MaxTranscriptions

\* Handlers of results before the newest one whose translate call has not
\* returned.
InFlight == {h \in Handlers : h[1] < Len(results) /\ hpc[h] \in {"translate", "translating"}}

LegacyInFlight ==
  {h \in LegacyHandlers : h[1] < Len(transcriptions) /\ tpc[h] = "translate"}

\* C19: whenever the recognition engine has another result, the dispatcher
\* can accept and number it at once, whatever the translation calls of
\* earlier results are doing (TranslationBot.process_stt and the legacy
\* worker's _handle_transcription).
C19_DispatchNeverWaits ==
  /\ ResultPending => ENABLED ResultArrives(TRUE) /\ ENABLED ResultArrives(FALSE)
  /\ TranscriptionPending => ENABLED HandleTranscription(TRUE)

\* The third result was accepted and numbered while translate calls of the
\* first and of the second result were still outstanding.
C19_Witness ==
  /\ Len(results) = 3 /\ results[3].seq = 3
  /\ \E h, g \in InFlight : h[1] = 1 /\ g[1] = 2

\* handle_translation_and_tts invocations that have not returned.
Unfinished == {h \in Handlers : hpc[h] \notin {"done", "translate_error", "synth_error"}}

\* A segment sits behind the shutdown sentinel in the queue of language l.
SegmentBehindSentinel(l) ==
  LET q == tts_audio_queues[l]
  IN \E i, j \in 1..Len(q) : i < j /\ q[i] = None /\ q[j] # None

\* C20: when run() puts a shutdown sentinel on a synthesis queue, no
\* handle_translation_and_tts invocation is still unfinished, and no segment
\* is ever queued behind a sentinel.
C20_DrainedBeforeSentinel ==
  [][/\ sentinelPut' # sentinelPut => Unfinished = {}
     /\ \A l \in DOMAIN tts_audio_queues' : ~SegmentBehindSentinel(l)']_vars

\* Every audio target of the bot has its queue and a pump that was started.
BotOutputsReady ==
  \A l \in Range(audio_targets) :
    /\ HasQueue(l)
    /\ \E p \in DOMAIN pumpPc : audio_targets[p] = l

\* Every audio target of the legacy worker has its queue and its task.
LegacyOutputsReady ==
  \A l \in Range(worker_config.audio_targets) :
    l \in DOMAIN tts_queues /\ l \in DOMAIN tts_tasks

\* C21: once ingestion and dispatch have started (the recognition stream is
\* open or a transcript has been dispatched), every audio-target language has
\* its synthesis queue and a started pump, in TranslationBot and in the
\* legacy worker.
C21_OutputsBeforeDispatch ==
  /\ (sttPc # "none" \/ results # <<>>) => BotOutputsReady
  /\ LegacyHandlers # {} => LegacyOutputsReady

\* The pump tasks that read the queue and write the track of language l.
PumpsOf(l) == {p \in DOMAIN pumpPc : audio_targets[p] = l}

\* C22: once run() has started its tasks, every language that has a
\* synthesis queue has exactly one pump task, the only writer of the
\* language's outbound track, whatever language list was configured.
C22_OnePumpPerLanguage ==
  sttPc # "none" => \A l \in DOMAIN tts_audio_queues : Cardinality(PumpsOf(l)) = 1

\* The maxsize RoomManager.setup_audio_track creates a language's queue
\* with: asyncio.Queue() takes the default, 0, which means no limit.
LegacyQueueMaxsize == 0

\* A queue created with the given maxsize has a capacity and respects it.
WithinCapacity(q, maxsize) == maxsize > 0 /\ Len(q) <= maxsize

\* C23: every inter-stage queue has a fixed capacity and never holds more
\* items than that: the ingestion buffer and the synthesis queues of
\* TranslationBot, and the per-language queues of the legacy RoomManager.
C23_QueuesBounded ==
  /\ WithinCapacity(audio_q, AudioQMax)
  /\ \A l \in DOMAIN tts_audio_queues : WithinCapacity(tts_audio_queues[l], TtsQueueMax)
  /\ \A l \in DOMAIN tts_queues : WithinCapacity(tts_queues[l], LegacyQueueMaxsize)

\* load_room_metadata has returned.
ConfigResolved == runPc \in {"tracks", "wait_track"}

\* C24: once the configuration is resolved (constructor list, then
\* load_room_metadata), the source language is in neither
\* translation_targets nor audio_targets.
C24_NoSelfTranslation ==
  ConfigResolved =>
    primary_lang \notin Range(translation_targets) \cup Range(audio_targets)

\* The languages some entry of the outputs list enables captions, or audio,
\* for.
CaptionEnabled(outs) == {outs[i].lang : i \in {j \in 1..Len(outs) : outs[j].captions}} \ {""}

AudioEnabled(outs) == {outs[i].lang : i \in {j \in 1..Len(outs) : outs[j].audio}} \ {""}

\* The targets are exactly the enabled languages, the source language left
\* out.
TargetsMatch(prim, captionTargets, audioTargets, outs) ==
  /\ Range(captionTargets) = CaptionEnabled(outs) \ {prim}
  /\ Range(audioTargets) = AudioEnabled(outs) \ {prim}

\* C25: for room metadata with an outputs list, a language other than the
\* source language is a caption target iff some entry naming it has
\* captions = true, and an audio target iff some entry naming it has
\* audio = true, in TranslationBot after load_room_metadata and in the
\* configuration update_config_from_metadata returns.
C25_TargetsIffEnabled ==
  LET outs == input.metadata.outputs
      cfg == UpdateConfigFromMetadata(LegacyOff, input.metadata)
  IN (ConfigResolved /\ outs # <<>>) =>
       /\ TargetsMatch(primary_lang, translation_targets, audio_targets, outs)
       /\ TargetsMatch(cfg.primary_language, cfg.translation_targets, cfg.audio_targets, outs)

\* The index of the first outputs entry that names language l with captions
\* enabled, and of the first one that names it with a voice.
FirstCaption(outs, l) ==
  CHOOSE i \in 1..Len(outs) :
    /\ outs[i].lang = l /\ outs[i].captions
    /\ \A j \in 1..(i - 1) : ~(outs[j].lang = l /\ outs[j].captions)

FirstVoiced(outs, l) ==
  CHOOSE i \in 1..Len(outs) :
    /\ outs[i].lang = l /\ outs[i].voice # ""
    /\ \A j \in 1..(i - 1) : ~(outs[j].lang = l /\ outs[j].voice # "")

\* C26: when the targets are taken from the outputs list, every language
\* occurs once in translation_targets, at the position of its first entry,
\* and the voice recorded for a language is the voice of the first entry
\* that names it with one.
C26_FirstSeenWins ==
  LET outs == input.metadata.outputs
      t == translation_targets
  IN ConfigResolved =>
       /\ MetaUsed(input.metadata, InitPrimary(input.lang_codes)) =>
            \A p, q \in 1..Len(t) :
              p < q => t[p] # t[q] /\ FirstCaption(outs, t[p]) < FirstCaption(outs, t[q])
       /\ \A l \in DOMAIN voice_by_lang :
            voice_by_lang[l] = outs[FirstVoiced(outs, l)].voice

\* The room metadata names no source language or has no outputs.
ConfigError == input.metadata.sourceLanguage = "" \/ input.metadata.outputs = <<>>

\* Nothing of the pipeline exists: no outbound track and queue, no pump, no
\* ingestion and no recognition.
NoPipeline ==
  /\ tts_audio_queues = << >> /\ pumpPc = << >>
  /\ feedPc = "none" /\ sttPc = "none"
  /\ framesIn = 0 /\ audio_q = <<>>

\* C27: a session whose room metadata lacks the source language or the
\* outputs never builds any part of the pipeline: no track is published, no
\* pump is started, no audio is ingested.
C27_ConfigErrorFatal == ConfigError => NoPipeline

\* C28: for every finalized transcript, every audio target that has its
\* queue, whether or not it is also a caption target, gets a
\* handle_translation_and_tts invocation
\* that translates the transcript and enqueues its audio.
C28_AudioOnlyServed ==
  \A k \in 1..Len(results) :
    results[k].final =>
      \A l \in Range(audio_targets) :
        HasQueue(l) => \E h \in Handlers : h[1] = k /\ HLang(h) = l

\* Publishing the track of an audio target raises in this step, in run()'s
\* track loop and in the legacy _setup_audio_tracks.
PublishFailStep == runPc = "tracks" /\ faults' = faults + 1

SetupFailStep == setupIdx' = setupIdx + 1 /\ tts_queues' = tts_queues

\* C29: a failing publish of one language's track leaves the languages set up
\* before it untouched and the session goes on with the next language (or
\* with ingestion); when the tasks are started every language that has a
\* queue gets its pump, and the failed language has neither. The same holds
\* for the legacy worker's setup loop.
C29_TrackLossTolerated ==
  [][/\ PublishFailStep =>
          /\ tts_audio_queues' = tts_audio_queues /\ track' = track
          /\ runPc' \in {"tracks", "wait_track"}
     /\ (sttPc = "none" /\ sttPc' = "streaming") =>
          \A l \in Range(audio_targets) :
            HasQueue(l) <=> \E p \in DOMAIN pumpPc' : audio_targets[p] = l
     /\ SetupFailStep =>
          /\ tts_tasks' = tts_tasks /\ workerPc' = "setup"
     /\ (workerPc = "setup" /\ workerPc' = "running") =>
          DOMAIN tts_queues = DOMAIN tts_tasks]_vars

\* The track of one audio target could not be published, and a segment of
\* another audio target was written to its track in full.
C29_Witness ==
  /\ faults = 1 /\ sttPc # "none"
  /\ \E l \in Range(audio_targets) : ~HasQueue(l)
  /\ \E h \in Handlers : HasQueue(HLang(h)) /\ SegmentWritten(h)

\* The samples of a sequence of frames, one frame after the other.
RECURSIVE Flatten(_)
Flatten(fs) == IF fs = <<>> THEN <<>> ELSE Head(fs) \o Flatten(Tail(fs))

CeilDiv(n, d) == (n + d - 1) \div d

\* The framing loop has consumed the whole payload.
FramingDone == framer # "none" /\ idx >= Len(pcm)

\* C30: cutting a payload of n samples into frames of FrameSamples samples
\* (in _pump and in AudioConverter._publish_audio_frames) captures frames of
\* exactly FrameSamples samples, in payload order; when the loop ends there
\* are ceil(n / FrameSamples) of them and their concatenation is the payload
\* followed by fewer than FrameSamples zeros; an empty payload yields no
\* frame.
C30_ReframeExact ==
  LET n == Len(pcm)
      out == Flatten(captured)
  IN /\ \A i \in 1..Len(captured) : Len(captured[i]) = FrameSamples
     /\ ~FramingDone => out = SubSeq(pcm, 1, idx)
     /\ FramingDone =>
          /\ Len(captured) = CeilDiv(n, FrameSamples)
          /\ Len(out) - n \in 0..(FrameSamples - 1)
          /\ out = pcm \o Zeros(Len(out) - n)
     /\ n = 0 => captured = <<>>

\* A payload that ends in a non-silent sample and is no multiple of the frame
\* size was cut into at least three frames, the last one padded.
C30_Witness ==
  /\ FramingDone
  /\ Len(pcm) % FrameSamples # 0 /\ pcm[Len(pcm)] # 0
  /\ Len(captured) >= 3

\* ------------------------------------------------------------------- C31
Abs(n) == IF n < 0 THEN -n ELSE n

\* C31: every conversion of a float sample to signed 16-bit clips it to
\* [-1, 1] first, so out-of-range input never wraps around (a sample above
\* 1.0 comes out at the positive end of the range and one below -1.0 at the
\* negative end), and an in-range sample read back from its 16-bit value is
\* within one quantization step of itself.
C31_ClipBeforeScale ==
  linear16 # <<>> =>
    /\ sample > SampleDen => linear16[1] >= FullScale
    /\ sample < -SampleDen => linear16[1] <= -FullScale
    /\ sample \in (-SampleDen)..SampleDen =>
         Abs(linear16[1] * SampleDen - sample * FullScale) <= SampleDen

\* ------------------------------------------------------------------- C32
\* The bot sent a translation-text message whose original-language-text
\* message (same seq) was not sent before it.
BotTranslationOvertakes ==
  \E m \in msgs :
    /\ m.type = "translation-text"
    /\ ~ \E o \in msgs : o.type = "original-language-text" /\ o.seq = m.seq

\* The legacy worker sent the translation of transcription k while the
\* original-language-text message of k is still to be sent.
LegacyTranslationOvertakes ==
  \E h \in LegacyHandlers :
    /\ tpc[h] \in {"queue", "done"}
    /\ LegacyMsg("original-language-text", worker_config.primary_language,
                 <<worker_config.primary_language, h[1]>>) \notin published

\* C32: the original-language-text message of a transcript is on the message
\* channel before any translation-text message of the same transcript, under
\* every interleaving of the publish and translation tasks.
C32_OriginalBeforeTranslation ==
  /\ ~ BotTranslationOvertakes
  /\ ~ LegacyTranslationOvertakes

\* ------------------------------------------------------------------- C33
\* The pump of position p ended on an exception raised while it converted
\* or wrote a payload.
PumpEndedOnError(p) == p \in DOMAIN pumpPc /\ pumpPc[p] = "dead"

\* A segment is waiting at the head of the queue of the language of pump p.
SegmentWaiting(p) ==
  /\ tts_audio_queues[audio_targets[p]] # <<>>
  /\ QueueHead(tts_audio_queues[audio_targets[p]]) # None

\* C33: an exception raised while _pump converts or writes one dequeued
\* payload drops only that segment: the pump of that language keeps running,
\* so while the bot is connected a segment enqueued afterwards still has a
\* pump that will write it.
C33_PumpSurvivesPayloadError ==
  \A p \in DOMAIN pumpPc :
    (is_connected /\ SegmentWaiting(p)) => ~ PumpEndedOnError(p)

\* ------------------------------------------------------------------- C34
\* C34: for one target language the segments are enqueued, and so played,
\* in increasing sequence-id order, whatever the latency of the translation
\* and synthesis calls of their handlers.
C34_TrackInSeqOrder ==
  \A l \in Langs :
    \A i, j \in 1..Len(enq[l]) :
      i < j => HSeq(enq[l][i]) < HSeq(enq[l][j])

\* ------------------------------------------------------------------- C35
\* C35: SessionSupervisor keeps at most one active TranslationBot per room:
\* after any sequence of start and stop calls, a new bot of the room was
\* started only when the run task of the previous bot has finished its
\* teardown.
C35_OneActiveBotPerRoom == restart = "started" => RunTaskDone

\* ------------------------------------------------------------------- C36
\* C36: when starting an event fails after the room connection was opened
\* (invalid configuration, or worker.initialize raising), the newly
\* connected room is disconnected by the cleanup on error.
C36_FailedStartDisconnects ==
  \A i \in DOMAIN attempts :
    attempts[i].worker = "failed" => attempts[i].room = "disconnected"

\* ------------------------------------------------------------------- C38
\* C38: a "disconnected" event of room R only tears down the worker that was
\* started for R: the _stop_current_worker it triggers never cleans up the
\* worker, nor disconnects the room, of another event, however late the
\* event is delivered.
C38_StaleEventHarmless ==
  \A x \in DOMAIN stopPc :
    x # 0 =>
      /\ stopPc[x].w \in {0, x}
      /\ stopPc[x].r \in {0, x}

\* ------------------------------------------------------------------- C37
\* C37: when the source audio track ends or is unsubscribed, the audio
\* processor cleans up by itself: process_audio_track eventually
\* terminates, the audio stream and the STT stream of the track are closed
\* and its entry is removed from _active_streams.
C37_TrackEndCleansUp ==
  (audio_stream = "ended") ~>
     (processPc = "done" /\ ~active_streams /\ stt_closed /\ audio_stream = "closed")

\* ------------------------------------------------------------------- C39
\* C39: once the configuration of a session is resolved, the language the
\* recognizer is configured with is the source language that the caption
\* and original-language-text messages carry as lang and the translation
\* calls as srcLang, also when the room metadata names a sourceLanguage
\* other than the first language of the constructor's list.
C39_RecognizerLanguageIsSource ==
  ConfigResolved => streaming_config = primary_lang

====
